---- MODULE Spec2Model ----
(***************************************************************************)
(* A model of the Wayfire overview plugin (src/src/overview.cpp): the      *)
(* scalar/rectangle animator, the window slots and their view              *)
(* transformers, the grid layout, the activities state machine, the drag   *)
(* controller and the per-frame workspace capture.                         *)
(*                                                                         *)
(* Conventions of the model                                                *)
(*  - float values are kept as integers: a tick truncates the eased value  *)
(*    toward zero (the code truncates when it reads it, anim_geo_t::current)*)
(*  - comparisons of float quotients are done exactly, by cross            *)
(*    multiplication;                                                      *)
(*  - the carousel scroll is kept in half pixels (scroll_target_for yields *)
(*    multiples of 0.5);                                                   *)
(*  - a pointer position (wf::pointf_t) is kept in sub-pixel units: x in   *)
(*    units of 1/og.width pixel, y in units of 1/og.height pixel, so that  *)
(*    the screen<->workspace mappings are exact;                           *)
(*  - steady_clock time is kept per animation as the time elapsed since    *)
(*    its start_time, capped at its duration (tick clamps it there);       *)
(*  - opacities are kept in thousandths (1000, 880, 1).                    *)
(***************************************************************************)
EXTENDS Integers, Sequences, FiniteSets, TLC

\* ------------------------------------------------------------------------
\* Bounds of the model
\* ------------------------------------------------------------------------

\* the number of completed drag-and-drop moves explored in one behaviour
MaxDrops == 1

\* the number of times the environment opens the overview
MaxSessions == 1

\* the number of times the environment opens the overview again after a
\* session has ended
MaxReopens == 1

\* the number of times the environment closes the overview with the toggle
MaxCloses == 1

\* the number of left button presses the environment delivers
MaxPresses == 2

\* the number of windows that unmap
MaxUnmaps == 1

\* the longest time, in milliseconds, a scalar animation on its own is followed
MaxAnimTime == 600

\* the largest window count given to the grid selection on its own
MaxGridN == 20

\* ------------------------------------------------------------------------
\* Program constants and the environment's configuration
\* ------------------------------------------------------------------------

\* activities_view_t::anim_duration (ms)
anim_duration == 300

\* the duration an anim_t is constructed with (ms)
default_duration_ms == 300

\* activities_view_t::spacing
spacing == 20

\* activities_view_t::panel_height
panel_height == 16

\* output->get_layout_geometry(): one 1920x1080 output at the layout origin
og == [x |-> 0, y |-> 0, width |-> 1920, height |-> 1080]

\* output->wset()->get_workspace_grid_size(): two workspaces side by side
wsize == [width |-> 2, height |-> 1]

\* a grid of three workspaces side by side
wsize_wide == [width |-> 3, height |-> 1]

\* the toplevel views of the output
Views == {"v1", "v2"}

\* a null wayfire_toplevel_view
NoView == "none"

\* the windows whose client may unmap them
Unmappable == {"v2"}

\* the frame intervals (ms) between two ticks that the model explores
FrameTimes == {150, 300}

\* transformer opacities, in thousandths: 1.0f, 0.88f and 0.001f
AlphaFull == 1000
AlphaIdle == 880
AlphaHidden == 1

\* ------------------------------------------------------------------------
\* Arithmetic helpers
\* ------------------------------------------------------------------------

Abs(a) == IF a < 0 THEN -a ELSE a

Min(a, b) == IF a <= b THEN a ELSE b

Max(a, b) == IF a >= b THEN a ELSE b

\* C++ integer division and float-to-int conversion: truncation toward zero
TruncDiv(a, b) ==
  IF (a >= 0) = (b > 0) THEN Abs(a) \div Abs(b) ELSE -(Abs(a) \div Abs(b))

\* C++ % : the remainder of the truncating division
TruncMod(a, b) == a - b * TruncDiv(a, b)

RECURSIVE GCD(_, _)
GCD(a, b) == IF b = 0 THEN a ELSE GCD(b, a % b)

Rect(x, y, w, h) == [x |-> x, y |-> y, width |-> w, height |-> h]

Point(x, y) == [x |-> x, y |-> y]

\* a whole-pixel position as a pointer position in sub-pixel units
PixelPoint(px, py) == Point(px * og.width, py * og.height)

\* ------------------------------------------------------------------------
\* anim_t: the scalar animation helper
\* ------------------------------------------------------------------------

\* anim_t(v)
anim_new(v) ==
  [val |-> v, start |-> v, goal |-> v, duration_ms |-> default_duration_ms,
   elapsed |-> 0, animating |-> FALSE]

anim_set_duration(a, ms) == [a EXCEPT !.duration_ms = ms]

\* animate_to(g): start_time = now, so nothing has elapsed yet
anim_animate_to(a, g) ==
  [a EXCEPT !.start = a.val, !.goal = g, !.elapsed = 0, !.animating = TRUE]

anim_warp(a, v) ==
  [a EXCEPT !.val = v, !.start = v, !.goal = v, !.animating = FALSE, !.elapsed = 0]

\* the clock advances by dt: now - start_time grows (kept up to the duration,
\* where tick clamps it)
anim_advance(a, dt) ==
  IF a.animating
  THEN [a EXCEPT !.elapsed = Min(a.elapsed + dt, Max(a.duration_ms, 0))]
  ELSE a

\* start + (goal - start) * (1 - (1 - t)^3) for t = elapsed / duration_ms
\* in lowest terms; duration_ms > 0
ease_value(start, goal, elapsed, duration) ==
  LET rest == duration - elapsed
      g == GCD(duration, rest)
      p == rest \div g
      q == duration \div g
  IN  start + TruncDiv((goal - start) * (q * q * q - p * p * p), q * q * q)

\* tick() that computes the value and never ends the animation
anim_tick_never_ends(a) ==
  IF ~a.animating THEN a
  ELSE [a EXCEPT !.val = ease_value(a.start, a.goal, Min(a.elapsed, a.duration_ms), a.duration_ms)]

\* tick(): the new state of the animation (duration_ms > 0)
anim_tick(a) ==
  IF ~a.animating THEN a
  ELSE IF a.elapsed >= a.duration_ms
       THEN [a EXCEPT !.val = a.goal, !.animating = FALSE, !.elapsed = 0]
       ELSE [a EXCEPT !.val = ease_value(a.start, a.goal, a.elapsed, a.duration_ms)]

anim_value(a) == a.val

anim_is_animating(a) == a.animating

\* ------------------------------------------------------------------------
\* anim_geo_t: four scalar animations
\* ------------------------------------------------------------------------

anim_geo_new == [x |-> anim_new(0), y |-> anim_new(0), w |-> anim_new(0), h |-> anim_new(0)]

geo_set_duration(ag, ms) ==
  [x |-> anim_set_duration(ag.x, ms), y |-> anim_set_duration(ag.y, ms),
   w |-> anim_set_duration(ag.w, ms), h |-> anim_set_duration(ag.h, ms)]

geo_animate_to(ag, g) ==
  [x |-> anim_animate_to(ag.x, g.x), y |-> anim_animate_to(ag.y, g.y),
   w |-> anim_animate_to(ag.w, g.width), h |-> anim_animate_to(ag.h, g.height)]

geo_warp(ag, g) ==
  [x |-> anim_warp(ag.x, g.x), y |-> anim_warp(ag.y, g.y),
   w |-> anim_warp(ag.w, g.width), h |-> anim_warp(ag.h, g.height)]

geo_advance(ag, dt) ==
  [x |-> anim_advance(ag.x, dt), y |-> anim_advance(ag.y, dt),
   w |-> anim_advance(ag.w, dt), h |-> anim_advance(ag.h, dt)]

geo_tick(ag) ==
  [x |-> anim_tick(ag.x), y |-> anim_tick(ag.y), w |-> anim_tick(ag.w), h |-> anim_tick(ag.h)]

geo_current(ag) == Rect(ag.x.val, ag.y.val, ag.w.val, ag.h.val)

geo_goal(ag) == Rect(ag.x.goal, ag.y.goal, ag.w.goal, ag.h.goal)

geo_is_animating(ag) ==
  ag.x.animating \/ ag.y.animating \/ ag.w.animating \/ ag.h.animating

\* ------------------------------------------------------------------------
\* window_slot_t and its view_2d_transformer_t
\* ------------------------------------------------------------------------

\* a float scale factor as an exact quotient
Ratio(n, d) == [num |-> n, den |-> d]

\* a null std::shared_ptr<view_2d_transformer_t>
NullTransformer ==
  [null |-> TRUE, translation_x2 |-> 0, translation_y2 |-> 0,
   scale_x |-> Ratio(1, 1), scale_y |-> Ratio(1, 1), alpha |-> AlphaFull]

\* std::make_shared<view_2d_transformer_t>(view): the identity transform
NewTransformer == [NullTransformer EXCEPT !.null = FALSE]

\* std::clamp((float)a / b, 0.1f, 10.0f) for b > 0
ClampScale(a, b) ==
  IF 10 * a < b THEN Ratio(1, 10)
  ELSE IF a > 10 * b THEN Ratio(10, 1)
  ELSE Ratio(a, b)

\* window_slot_t s; s.view = v; s.orig_geo = ...
NewSlot(v, orig) ==
  [view |-> v, orig_geo |-> orig, target_geo |-> Rect(0, 0, 0, 0),
   anim |-> anim_geo_new, transformer |-> NullTransformer, hovered |-> FALSE]

\* start_anim(entering, duration) that starts the entry animation from
\* wherever the rectangle is
start_anim_from_current(s, entering, duration) ==
  LET a == geo_set_duration(s.anim, duration)
  IN  [s EXCEPT !.anim = geo_animate_to(a, IF entering THEN s.target_geo ELSE s.orig_geo)]

\* window_slot_t::start_anim(entering, duration)
start_anim(s, entering, duration) ==
  LET a == geo_set_duration(s.anim, duration)
  IN  [s EXCEPT !.anim = IF entering THEN geo_animate_to(geo_warp(a, s.orig_geo), s.target_geo)
                         ELSE geo_animate_to(a, s.orig_geo)]

\* window_slot_t::update_transformer(); mapped is view->is_mapped().
\* Translations are kept doubled (they are multiples of 0.5).
update_transformer(s, mapped) ==
  IF s.transformer.null \/ s.view = NoView \/ ~mapped
     \/ s.orig_geo.width <= 0 \/ s.orig_geo.height <= 0
  THEN s
  ELSE LET cur == geo_current(s.anim)
       IN  [s EXCEPT !.transformer =
             [null |-> FALSE,
              translation_x2 |-> (2 * cur.x + cur.width) - (2 * s.orig_geo.x + s.orig_geo.width),
              translation_y2 |-> (2 * cur.y + cur.height) - (2 * s.orig_geo.y + s.orig_geo.height),
              scale_x |-> ClampScale(cur.width, s.orig_geo.width),
              scale_y |-> ClampScale(cur.height, s.orig_geo.height),
              alpha |-> IF s.hovered THEN AlphaFull ELSE AlphaIdle]]

\* window_slot_t::reset_transformer()
reset_transformer(s) ==
  IF s.transformer.null THEN s ELSE [s EXCEPT !.transformer = NewTransformer]

\* ------------------------------------------------------------------------
\* Layout engine
\* ------------------------------------------------------------------------

\* int r = (n + c - 1) / c
grid_rows(n, c) == (n + c - 1) \div c

\* The score rd + ep of gnome_grid for c columns, n windows and the area
\* aspect an/ad, multiplied by 2 * n * an and kept as a quotient over r:
\*   rd = |c/r - an/ad| / (an/ad),  ep = (c*r - n) / n * 0.5

\* the score with the empty-cell penalty weighted 1 instead of 0.5
grid_score_full_penalty(n, an, ad, c) ==
  LET r == grid_rows(n, c)
  IN  Ratio(2 * n * Abs(c * ad - r * an) + 2 * an * (c * r - n) * r, r)

grid_score(n, an, ad, c) ==
  LET r == grid_rows(n, c)
  IN  Ratio(2 * n * Abs(c * ad - r * an) + an * (c * r - n) * r, r)

\* sc <= best_score: a later column count replaces an equal earlier one
score_less_or_equal(s1, s2) == s1.num * s2.den <= s2.num * s1.den

\* sc < best_score
score_less(s1, s2) == s1.num * s2.den < s2.num * s1.den

\* the loop of gnome_grid from column count c on; best is the best column
\* count so far (best_score starts at 1e9, above the score of every grid of
\* a positive aspect in range, so the first candidate always replaces it)
RECURSIVE grid_loop(_, _, _, _, _)
grid_loop(n, an, ad, c, best) ==
  IF c > Min(n, 6) THEN best
  ELSE grid_loop(n, an, ad, c + 1,
         IF best = 0 \/ score_less(grid_score(n, an, ad, c), grid_score(n, an, ad, best))
         THEN c ELSE best)

\* activities_view_t::gnome_grid(n, area_aspect = an/ad, cols, rows)
gnome_grid(n, an, ad) ==
  IF n <= 1 THEN [cols |-> 1, rows |-> 1]
  ELSE IF n = 2 THEN [cols |-> 2, rows |-> 1]
  ELSE IF n = 3 THEN [cols |-> 3, rows |-> 1]
  ELSE LET c == grid_loop(n, an, ad, 2, 0)
       IN  [cols |-> c, rows |-> grid_rows(n, c)]

\* the small thumbnails of arrange(): ws_geos for total workspaces
thumb_geos(o, sp, total) ==
  LET th == TruncDiv(o.height * 10, 100)
      tw == TruncDiv(th * o.width, o.height)
      ws_sp == TruncDiv(sp, 2)
      total_w == total * tw + (total - 1) * ws_sp
      ws_x == TruncDiv(o.width - total_w, 2)
      ws_y == o.height - sp * 2 - th
  IN  [i \in 1..total |-> Rect(ws_x + (i - 1) * (tw + ws_sp), ws_y, tw, th)]

\* the main preview rectangle of arrange(): preview_geo
main_preview_geo(o, sp, ph) ==
  LET th == TruncDiv(o.height * 10, 100)
      ws_y == o.height - sp * 2 - th
      top == ph + sp
      main_bot == ws_y - sp
      avail_h == main_bot - top
      avail_w == o.width - sp * 4
      mh0 == TruncDiv(avail_w * o.height, o.width)
      fit == mh0 > avail_h
      mh1 == IF fit THEN avail_h ELSE mh0
      mw1 == IF fit THEN TruncDiv(avail_h * o.width, o.height) ELSE avail_w
      mw == TruncDiv(mw1 * 98, 100)
      mh == TruncDiv(mh1 * 98, 100)
  IN  Rect(TruncDiv(o.width - mw, 2), top + TruncDiv(avail_h - mh, 2), mw, mh)

\* the grid cell (cx, cy, cw, ch) arrange_ws_windows gives slot i (0-based)
\* of n in a grid of cols x rows on the output rectangle o
slot_cell(o, sp, n, cols, rows, i) ==
  LET waw == o.width - sp * 2
      wah == o.height - sp - sp
      gap == sp
      cw == TruncDiv(waw - gap * (cols - 1), cols)
      ch == TruncDiv(wah - gap * (rows - 1), rows)
      gh == rows * ch + (rows - 1) * gap
      gy == sp + TruncDiv(wah - gh, 2)
      row == TruncDiv(i, cols)
      itr == IF row = rows - 1 THEN n - row * cols ELSE cols
      row_w == itr * cw + (itr - 1) * gap
      row_x == TruncDiv(o.width - row_w, 2)
      cir == i - row * cols
  IN  Rect(row_x + cir * (cw + gap), gy + row * (ch + gap), cw, ch)

\* the window of size ow x oh drawn unscaled in the middle of its cell
slot_target_unscaled(o, sp, n, cols, rows, i, ow, oh) ==
  LET cell == slot_cell(o, sp, n, cols, rows, i)
  IN  Rect(cell.x + TruncDiv(cell.width - ow, 2), cell.y + TruncDiv(cell.height - oh, 2), ow, oh)

\* the target rectangle arrange_ws_windows gives slot i (0-based) of n, whose
\* original size is ow x oh, in a grid of cols x rows
slot_target(o, sp, n, cols, rows, i, ow, oh) ==
  LET centred(cell, sw, sh) ==
        Rect(cell.x + TruncDiv(cell.width - sw, 2), cell.y + TruncDiv(cell.height - sh, 2), sw, sh)
      \* sc = min(cw / ow, ch / oh) * 0.95; sw = (int)(ow * sc), sh = (int)(oh * sc)
      scaled(cell, cw, ch) ==
        IF cw * oh <= ch * ow
        THEN centred(cell, TruncDiv(cw * 95, 100), TruncDiv(oh * cw * 95, ow * 100))
        ELSE centred(cell, TruncDiv(ow * ch * 95, oh * 100), TruncDiv(ch * 95, 100))
      in_cell(cell) == scaled(cell, cell.width, cell.height)
  IN  in_cell(slot_cell(o, sp, n, cols, rows, i))

\* activities_view_t::arrange_ws_windows(wi) on the slot list of one
\* workspace, for the output rectangle o and the spacing sp; pg is
\* preview_geo
arrange_slots_on(o, sp, slots, pg) ==
  IF Len(slots) = 0 THEN slots
  ELSE LET n == Len(slots)
           g == gnome_grid(n, pg.width, pg.height)
       IN  [i \in 1..n |->
             [slots[i] EXCEPT !.target_geo =
               slot_target(o, sp, n, g.cols, g.rows, i - 1,
                           slots[i].orig_geo.width, slots[i].orig_geo.height)]]

\* arrange_ws_windows on the output of the model
arrange_slots(slots, pg) == arrange_slots_on(og, spacing, slots, pg)

\* ------------------------------------------------------------------------
\* State
\* ------------------------------------------------------------------------

VARIABLES
  core,        \* the host compositor: the views, the workspace set, the transformers on the view nodes
  av,          \* the activities_view_t object
  ov,          \* the overview_output_t fields: hooks_active, button_held, press_pos, drag_started
  fb,          \* what the last workspace capture pass drew of the dragged view: its opacity
  used,        \* what the environment has done so far: drops, opens, closes, presses, unmaps
  input_open,  \* whether the environment still delivers input events
  probe        \* what a call made through the interface was given, for the properties

vars == <<core, av, ov, fb, used, input_open, probe>>

\* ------------------------------------------------------------------------
\* The host compositor (wayfire), as the plugin uses it
\* ------------------------------------------------------------------------

\* the geometry of the views before the overview opens, relative to
\* workspace (0, 0): v1 on workspace 0, v2 on workspace home
InitViews(home) ==
  [v \in Views |->
     IF v = "v1" THEN [geo |-> Rect(100, 100, 800, 600), mapped |-> TRUE]
     ELSE [geo |-> Rect(home * og.width + 600, 300, 640, 480), mapped |-> TRUE]]

\* the compositor's state before the overview opens: the views, the
\* workspace grid size, the current workspace and the view that holds the
\* input focus (v1; no statement of the program gives the focus to a view)
core_new(views, size) ==
  [views |-> views, cur_ws |-> Point(0, 0), node_transformers |-> [v \in Views |-> 0],
   wsize |-> size, focus |-> "v1"]

\* the views in the order output->wset()->get_views() lists them
ViewOrder == <<"v1", "v2">>

\* view->get_geometry(): the geometry relative to the current workspace
\* (a view's geo is kept relative to workspace (0,0))
get_geometry(c, v) ==
  Rect(c.views[v].geo.x - c.cur_ws.x * og.width, c.views[v].geo.y - c.cur_ws.y * og.height,
       c.views[v].geo.width, c.views[v].geo.height)

\* view->is_mapped()
is_mapped(c, v) == v # NoView /\ c.views[v].mapped

\* view->move(x, y): x, y relative to the current workspace
view_move(c, v, x, y) ==
  [c EXCEPT !.views[v].geo.x = x + c.cur_ws.x * og.width,
            !.views[v].geo.y = y + c.cur_ws.y * og.height]

\* output->wset()->set_workspace(p)
set_workspace(c, p) == [c EXCEPT !.cur_ws = p]

\* get_transformed_node()->add_transformer(..., TRANSFORMER_NAME)
add_transformer(c, v) == [c EXCEPT !.node_transformers[v] = @ + 1]

\* get_transformed_node()->rem_transformer(TRANSFORMER_NAME)
rem_transformer(c, v) == [c EXCEPT !.node_transformers[v] = 0]

\* the workspace a view's centre lies on, as get_views_on_workspace computes
\* it: cur + floor((vg.x + vg.width / 2) / og.width), likewise for y
view_workspace(c, v) ==
  LET vg == get_geometry(c, v)
  IN  Point(c.cur_ws.x + ((vg.x + TruncDiv(vg.width, 2)) \div og.width),
            c.cur_ws.y + ((vg.y + TruncDiv(vg.height, 2)) \div og.height))

\* activities_view_t::get_views_on_workspace(ws), in listing order
RECURSIVE views_on_from(_, _, _)
views_on_from(c, ws, k) ==
  IF k > Len(ViewOrder) THEN << >>
  ELSE (IF c.views[ViewOrder[k]].mapped /\ view_workspace(c, ViewOrder[k]) = ws
        THEN <<ViewOrder[k]>> ELSE << >>) \o views_on_from(c, ws, k + 1)

get_views_on_workspace(c, ws) == views_on_from(c, ws, 1)

\* ------------------------------------------------------------------------
\* drag_state_t.  The fields only the renderer reads (grab_cursor,
\* current_cursor, initial_screen_geo, float_width, float_height,
\* grab_offset_in_window, snapshot_fb) are not part of the state.
\* ------------------------------------------------------------------------

drag_new ==
  [active |-> FALSE, view |-> NoView, slot_index |-> -1,
   hover_ws |-> -1, hover_large_ws |-> -1,
   has_snapshot |-> FALSE, needs_capture |-> FALSE, view_geo |-> Rect(0, 0, 0, 0)]

\* a reset that clears only the active flag
drag_reset_active_only(d) == [d EXCEPT !.active = FALSE]

drag_reset(d) ==
  [d EXCEPT !.active = FALSE, !.view = NoView, !.slot_index = -1, !.hover_ws = -1,
            !.hover_large_ws = -1, !.has_snapshot = FALSE, !.needs_capture = FALSE]

\* ------------------------------------------------------------------------
\* activities_view_t: construction, indices, hit testing
\* ------------------------------------------------------------------------

\* activities_view_t(out) followed by set_config(...)
av_new ==
  [ws_windows |-> << >>, focused_ws |-> 0, orig_ws |-> Point(0, 0), hovered_view |-> NoView,
   carousel_scroll |-> anim_set_duration(anim_new(0), anim_duration),
   preview_geo |-> Rect(0, 0, 0, 0), carousel_gap |-> 0, ws_geos |-> << >>,
   ws_rows |-> 1, ws_cols |-> 1, total_ws |-> 1, cur_ws |-> Point(0, 0),
   desktop_anim |-> geo_set_duration(anim_geo_new, anim_duration),
   is_active |-> FALSE, is_animating |-> FALSE, switching_ws |-> FALSE, pending_ws |-> -1,
   drag |-> drag_new]

ws_index_to_point(a, idx) == Point(TruncMod(idx, a.ws_cols), TruncDiv(idx, a.ws_cols))

ws_point_to_index(a, p) == p.y * a.ws_cols + p.x

\* (int)ws_windows.size()
ws_count(a) == Len(a.ws_windows)

\* ws_windows[wi].slots (wi is 0-based, as in the code)
slots_of(a, wi) == a.ws_windows[wi + 1].slots

\* scroll_target_for(ws_idx) that puts the left edge of the preview on the
\* left edge of the output
scroll_target_for_left(a, ws_idx) ==
  2 * ws_idx * (a.preview_geo.width + a.carousel_gap)

\* scroll_target_for(ws_idx), in half pixels
scroll_target_for(a, ws_idx) ==
  2 * ws_idx * (a.preview_geo.width + a.carousel_gap) + a.preview_geo.width - og.width

\* get_large_ws_render_geo(ws_idx): rx = base_x - scroll, truncated
get_large_ws_render_geo(a, ws_idx) ==
  Rect(TruncDiv(2 * ws_idx * (a.preview_geo.width + a.carousel_gap) - a.carousel_scroll.val, 2),
       a.preview_geo.y, a.preview_geo.width, a.preview_geo.height)

\* whether the screen-local point p lies in the pixel rectangle g
in_rect(p, g) ==
  /\ p.x >= g.x * og.width /\ p.x < (g.x + g.width) * og.width
  /\ p.y >= g.y * og.height /\ p.y < (g.y + g.height) * og.height

\* find_large_ws_at(screen_local)
find_large_ws_at(a, p) ==
  LET hits == {i \in 0..(a.total_ws - 1) : in_rect(p, get_large_ws_render_geo(a, i))}
  IN  IF hits = {} THEN -1 ELSE CHOOSE i \in hits : \A j \in hits : i <= j

\* find_thumb_ws_at(global_p): lx = x - og.x, ly = og.height - (y - og.y)
find_thumb_ws_at(a, gp) ==
  LET lp == Point(gp.x - og.x * og.width, og.height * og.height - (gp.y - og.y * og.height))
      hits == {i \in 0..(Len(a.ws_geos) - 1) : in_rect(lp, a.ws_geos[i + 1])}
  IN  IF hits = {} THEN -1 ELSE CHOOSE i \in hits : \A j \in hits : i <= j

\* screen_to_ws_local(screen_local, ws_idx): the workspace-local point as
\* the exact quotients xn/xd and yn/yd (pixels)
screen_to_ws_local(a, p, ws_idx) ==
  LET dg == get_large_ws_render_geo(a, ws_idx)
  IN  IF dg.width <= 0 \/ dg.height <= 0
      THEN [xn |-> p.x, xd |-> og.width, yn |-> p.y, yd |-> og.height]
      ELSE [xn |-> p.x - dg.x * og.width, xd |-> dg.width,
            yn |-> p.y - (og.height - dg.y - dg.height) * og.height, yd |-> dg.height]

\* wp inside the workspace-local rectangle g
ws_point_in(wp, g) ==
  /\ wp.xn >= g.x * wp.xd /\ wp.xn < (g.x + g.width) * wp.xd
  /\ wp.yn >= g.y * wp.yd /\ wp.yn < (g.y + g.height) * wp.yd

\* find_slot_at(screen_local): the 0-based slot index, or -1
find_slot_at(a, p) ==
  IF a.focused_ws < 0 \/ a.focused_ws >= ws_count(a) THEN -1
  ELSE IF find_large_ws_at(a, p) # a.focused_ws THEN -1
  ELSE LET wp == screen_to_ws_local(a, p, a.focused_ws)
           slots == slots_of(a, a.focused_ws)
           hits == {i \in 0..(Len(slots) - 1) : ws_point_in(wp, geo_current(slots[i + 1].anim))}
       IN  IF hits = {} THEN -1 ELSE CHOOSE i \in hits : \A j \in hits : i >= j

\* find_view_at(screen_local)
find_view_at(a, p) ==
  LET idx == find_slot_at(a, p)
  IN  IF idx >= 0 /\ a.focused_ws >= 0 /\ a.focused_ws < ws_count(a)
      THEN slots_of(a, a.focused_ws)[idx + 1].view ELSE NoView

\* ------------------------------------------------------------------------
\* activities_view_t: the state machine.  A method takes and returns the
\* pair w = [av |-> the object, core |-> the compositor]
\* ------------------------------------------------------------------------

World(a, c) == [av |-> a, core |-> c]

\* std::vector erase(begin() + k) for a 0-based k
seq_erase(q, k) == [i \in 1..(Len(q) - 1) |-> IF i <= k THEN q[i] ELSE q[i + 1]]

\* the slot activate() and add_view_to_ws() build for view v on workspace
\* index wi: orig_geo is the view's geometry moved back by the offset of the
\* workspace from cur_ws, with non-positive sizes replaced by 100
make_slot(a, c, v, wi) ==
  LET wsp == ws_index_to_point(a, wi)
      ox == (wsp.x - a.cur_ws.x) * og.width
      oy == (wsp.y - a.cur_ws.y) * og.height
      vg == get_geometry(c, v)
  IN  NewSlot(v, Rect(vg.x - ox, vg.y - oy,
                      IF vg.width <= 0 THEN 100 ELSE vg.width,
                      IF vg.height <= 0 THEN 100 ELSE vg.height))

\* arrange(): ws_geos, preview_geo, carousel_gap, then arrange_ws_windows
\* for every workspace
arrange(a) ==
  LET pg == main_preview_geo(og, spacing, panel_height)
  IN  [a EXCEPT !.ws_geos = thumb_geos(og, spacing, a.total_ws),
                !.preview_geo = pg,
                !.carousel_gap = spacing * 2,
                !.ws_windows = [i \in 1..Len(a.ws_windows) |->
                                 [a.ws_windows[i] EXCEPT !.slots = arrange_slots(@, pg)]]]

\* arrange_ws_windows(wi)
arrange_ws_windows(a, wi) ==
  IF wi < 0 \/ wi >= ws_count(a) THEN a
  ELSE [a EXCEPT !.ws_windows[wi + 1].slots = arrange_slots(@, a.preview_geo)]

\* the slots of attach_transformers_for_ws: a mapped slot gets a fresh
\* transformer and starts its entry animation
attach_slot(c, s) ==
  IF ~is_mapped(c, s.view) THEN s
  ELSE start_anim([s EXCEPT !.transformer = NewTransformer], TRUE, anim_duration)

\* the views a slot list names that are mapped (a sequence, slot by slot)
RECURSIVE add_transformers(_, _, _)
add_transformers(c, slots, k) ==
  IF k > Len(slots) THEN c
  ELSE add_transformers(IF is_mapped(c, slots[k].view) THEN add_transformer(c, slots[k].view) ELSE c,
                        slots, k + 1)

\* attach_transformers_for_ws(wi)
attach_transformers_for_ws(w, wi) ==
  IF wi < 0 \/ wi >= ws_count(w.av) \/ w.av.ws_windows[wi + 1].transformers_attached THEN w
  ELSE World([w.av EXCEPT !.ws_windows[wi + 1] =
                [slots |-> [i \in 1..Len(@.slots) |-> attach_slot(w.core, @.slots[i])],
                 transformers_attached |-> TRUE]],
             add_transformers(w.core, slots_of(w.av, wi), 1))

RECURSIVE attach_all(_, _)
attach_all(w, wi) ==
  IF wi >= w.av.total_ws THEN w ELSE attach_all(attach_transformers_for_ws(w, wi), wi + 1)

\* the removal of a slot's transformer from its view, as
\* detach_transformers_for_ws and end_drag do it
RECURSIVE rem_transformers(_, _, _)
rem_transformers(c, slots, k) ==
  IF k > Len(slots) THEN c
  ELSE rem_transformers(
         IF is_mapped(c, slots[k].view) /\ ~slots[k].transformer.null
         THEN rem_transformer(c, slots[k].view) ELSE c,
         slots, k + 1)

\* detach_transformers_for_ws(wi)
detach_transformers_for_ws(w, wi) ==
  IF wi < 0 \/ wi >= ws_count(w.av) THEN w
  ELSE World([w.av EXCEPT !.ws_windows[wi + 1] =
                [slots |-> [i \in 1..Len(@.slots) |-> [@.slots[i] EXCEPT !.transformer = NullTransformer]],
                 transformers_attached |-> FALSE]],
             rem_transformers(w.core, slots_of(w.av, wi), 1))

RECURSIVE detach_all(_, _)
detach_all(w, wi) ==
  IF wi >= ws_count(w.av) THEN w ELSE detach_all(detach_transformers_for_ws(w, wi), wi + 1)

\* cleanup_all()
cleanup_all(w) ==
  LET d == detach_all(w, 0)
  IN  World([d.av EXCEPT !.ws_windows = << >>], d.core)

\* activate() past its early return
activate_from_inactive(w) ==
  LET c == w.core
      a1 == [w.av EXCEPT !.is_active = TRUE, !.is_animating = TRUE,
                         !.drag = drag_reset(@),
                         !.ws_cols = c.wsize.width, !.ws_rows = c.wsize.height,
                         !.total_ws = c.wsize.width * c.wsize.height,
                         !.cur_ws = c.cur_ws, !.orig_ws = c.cur_ws]
      \* focused_ws = ws_point_to_index(cur_ws)
      focus_current(a) == [a EXCEPT !.focused_ws = ws_point_to_index(a, a.cur_ws)]
      \* the loop that fills ws_windows
      fill_ws_windows(a) ==
        [a EXCEPT !.ws_windows =
           [i \in 1..a.total_ws |->
             [slots |-> [k \in 1..Len(get_views_on_workspace(c, ws_index_to_point(a, i - 1))) |->
                          make_slot(a, c, get_views_on_workspace(c, ws_index_to_point(a, i - 1))[k], i - 1)],
              transformers_attached |-> FALSE]]]
      \* carousel_scroll.set_duration, carousel_scroll.warp
      warp_scroll(a) ==
        [a EXCEPT !.carousel_scroll =
           anim_warp(anim_set_duration(@, anim_duration), scroll_target_for(a, a.focused_ws))]
      \* desktop_anim.warp, desktop_anim.animate_to(preview_geo)
      zoom_out(a) ==
        [a EXCEPT !.desktop_anim =
           geo_animate_to(geo_warp(@, Rect(0, 0, og.width, og.height)), a.preview_geo)]
      finish(w4) == World(zoom_out(warp_scroll(w4.av)), w4.core)
  IN  finish(attach_all(World(arrange(fill_ws_windows(focus_current(a1))), c), 0))

\* activate() without its early return
activate_always(w) == activate_from_inactive(w)

\* activate()
activate(w) == IF w.av.is_active THEN w ELSE activate_from_inactive(w)

\* every slot of every workspace: s.start_anim(false, anim_duration)
all_slots_leave(a) ==
  [a EXCEPT !.ws_windows =
    [i \in 1..Len(@) |->
      [@[i] EXCEPT !.slots = [k \in 1..Len(@) |-> start_anim(@[k], FALSE, anim_duration)]]]]

\* deactivate() that leaves the main-preview rectangle where it is
deactivate_without_zoom(w) ==
  IF ~w.av.is_active THEN w
  ELSE World(all_slots_leave([w.av EXCEPT !.drag = drag_reset(@), !.is_animating = TRUE]), w.core)

\* deactivate() that always marks a pending switch to the other workspace
deactivate_switching(w) ==
  IF ~w.av.is_active THEN w
  ELSE LET a1 == all_slots_leave([w.av EXCEPT !.drag = drag_reset(@), !.is_animating = TRUE])
       IN  World([a1 EXCEPT !.pending_ws = (ws_point_to_index(a1, w.core.cur_ws) + 1) % a1.total_ws,
                            !.switching_ws = TRUE,
                            !.desktop_anim = geo_animate_to(@, Rect(0, 0, og.width, og.height))],
                 w.core)

\* deactivate()
deactivate(w) ==
  IF ~w.av.is_active THEN w
  ELSE LET a1 == all_slots_leave([w.av EXCEPT !.drag = drag_reset(@), !.is_animating = TRUE])
           a2 == IF a1.focused_ws # ws_point_to_index(a1, a1.orig_ws)
                 THEN [a1 EXCEPT !.pending_ws = a1.focused_ws, !.switching_ws = TRUE]
                 ELSE a1
       IN  World([a2 EXCEPT !.desktop_anim = geo_animate_to(@, Rect(0, 0, og.width, og.height))],
                 w.core)

\* deactivate_to_ws(idx) that zooms out from wherever the main preview is
deactivate_to_ws_unwarped(w, idx) ==
  IF ~w.av.is_active THEN w
  ELSE LET a1 == all_slots_leave([w.av EXCEPT !.drag = drag_reset(@),
                                              !.pending_ws = idx, !.switching_ws = TRUE])
       IN  World([a1 EXCEPT !.desktop_anim =
                      geo_animate_to(geo_set_duration(@, anim_duration),
                                     Rect(0, 0, og.width, og.height)),
                            !.is_animating = TRUE],
                 w.core)

\* deactivate_to_ws(idx)
deactivate_to_ws(w, idx) ==
  IF ~w.av.is_active THEN w
  ELSE LET a1 == all_slots_leave([w.av EXCEPT !.drag = drag_reset(@),
                                              !.pending_ws = idx, !.switching_ws = TRUE])
           d1 == IF idx >= 0 /\ idx < Len(a1.ws_geos)
                 THEN geo_warp(a1.desktop_anim, a1.ws_geos[idx + 1]) ELSE a1.desktop_anim
       IN  World([a1 EXCEPT !.desktop_anim =
                      geo_animate_to(geo_set_duration(d1, anim_duration),
                                     Rect(0, 0, og.width, og.height)),
                            !.is_animating = TRUE],
                 w.core)

\* navigate_to that also commits the workspace to the compositor at once
navigate_to_and_switch(w, ws_idx) ==
  IF ws_idx < 0 \/ ws_idx >= w.av.total_ws \/ ws_idx = w.av.focused_ws THEN w
  ELSE World([w.av EXCEPT !.focused_ws = ws_idx, !.is_animating = TRUE],
             set_workspace(w.core, ws_index_to_point(w.av, ws_idx)))

\* navigate_to(ws_idx)
navigate_to(w, ws_idx) ==
  IF ws_idx < 0 \/ ws_idx >= w.av.total_ws \/ ws_idx = w.av.focused_ws THEN w
  ELSE World([w.av EXCEPT !.focused_ws = ws_idx,
                          !.carousel_scroll =
                             anim_animate_to(anim_set_duration(@, anim_duration),
                                             scroll_target_for(w.av, ws_idx)),
                          !.is_animating = TRUE],
             w.core)

\* whether any slot rectangle is animating
any_slot_animating(a) ==
  \E i \in 1..Len(a.ws_windows) :
    \E k \in 1..Len(a.ws_windows[i].slots) : geo_is_animating(a.ws_windows[i].slots[k].anim)

\* cur.width >= og.width - 10: the main preview is back at the width of
\* the output o
back_at_full_width(cur, o) == cur.width >= o.width - 10

\* check_done() that tears the session down whenever the animations end
check_done_any_width(w) ==
  IF ~w.av.is_animating THEN w
  ELSE IF geo_is_animating(w.av.desktop_anim) \/ anim_is_animating(w.av.carousel_scroll)
          \/ any_slot_animating(w.av)
  THEN w
  ELSE LET sw == w.av.switching_ws /\ w.av.pending_ws >= 0
           torn(w3) == World([w3.av EXCEPT !.is_active = FALSE], w3.core)
       IN  torn(cleanup_all(World(
             [w.av EXCEPT !.is_animating = FALSE,
                          !.switching_ws = IF sw THEN FALSE ELSE @,
                          !.pending_ws = IF sw THEN -1 ELSE @],
             IF sw THEN set_workspace(w.core, ws_index_to_point(w.av, w.av.pending_ws))
             ELSE w.core)))

\* check_done()
check_done(w) ==
  IF ~w.av.is_animating THEN w
  ELSE IF geo_is_animating(w.av.desktop_anim) \/ anim_is_animating(w.av.carousel_scroll)
          \/ any_slot_animating(w.av)
  THEN w
  ELSE LET a1 == [w.av EXCEPT !.is_animating = FALSE]
       IN  IF back_at_full_width(geo_current(a1.desktop_anim), og)
           THEN LET sw == a1.switching_ws /\ a1.pending_ws >= 0
                    c1 == IF sw THEN set_workspace(w.core, ws_index_to_point(a1, a1.pending_ws))
                          ELSE w.core
                    a2 == IF sw THEN [a1 EXCEPT !.switching_ws = FALSE, !.pending_ws = -1] ELSE a1
                    w3 == cleanup_all(World(a2, c1))
                IN  World([w3.av EXCEPT !.is_active = FALSE], w3.core)
           ELSE World(a1, w.core)

\* the loop of tick() leaving alone the slot of a window that is not mapped
tick_slot_mapped_only(c, s) ==
  IF is_mapped(c, s.view) THEN update_transformer([s EXCEPT !.anim = geo_tick(@)], TRUE) ELSE s

\* the loop of tick() over one slot: s.anim.tick(); s.update_transformer()
tick_slot(c, s) == update_transformer([s EXCEPT !.anim = geo_tick(@)], is_mapped(c, s.view))

\* tick() before its call of check_done()
tick_anims(w) ==
  World([w.av EXCEPT !.desktop_anim = geo_tick(@),
                     !.carousel_scroll = anim_tick(@),
                     !.ws_windows =
                       [i \in 1..Len(@) |->
                         [@[i] EXCEPT !.slots = [k \in 1..Len(@) |-> tick_slot(w.core, @[k])]]]],
        w.core)

\* tick()
tick(w) == check_done(tick_anims(w))

\* the steady clock advances by dt for every animation of the object
advance_clock(a, dt) ==
  [a EXCEPT !.desktop_anim = geo_advance(@, dt),
            !.carousel_scroll = anim_advance(@, dt),
            !.ws_windows =
              [i \in 1..Len(@) |->
                [@[i] EXCEPT !.slots =
                  [k \in 1..Len(@) |-> [@[k] EXCEPT !.anim = geo_advance(@, dt)]]]]]

\* ------------------------------------------------------------------------
\* Drag controller
\* ------------------------------------------------------------------------

\* the screen rectangle start_drag computes for the workspace-local
\* rectangle cur of the focused workspace: sx = dg.width / og.width,
\* sy = dg.height / og.height, every component truncated
screen_geo_of(a, cur) ==
  LET dg == get_large_ws_render_geo(a, a.focused_ws)
  IN  Rect(TruncDiv(dg.x * og.width + cur.x * dg.width, og.width),
           TruncDiv((og.height - dg.y - dg.height) * og.height + cur.y * dg.height, og.height),
           TruncDiv(cur.width * dg.width, og.width),
           TruncDiv(cur.height * dg.height, og.height))

\* the same mapping for a workspace-local point, kept exact (sub-pixel units)
ws_local_to_screen(a, px, py) ==
  LET dg == get_large_ws_render_geo(a, a.focused_ws)
  IN  Point(dg.x * og.width + px * dg.width,
            (og.height - dg.y - dg.height) * og.height + py * dg.height)

\* whether start_drag(sl) returns true
start_drag_ok(a, sl) == ~a.drag.active /\ find_slot_at(a, sl) >= 0

\* start_drag(sl)
start_drag(w, sl) ==
  IF ~start_drag_ok(w.av, sl) THEN w
  ELSE LET a == w.av
           idx == find_slot_at(a, sl)
           s == slots_of(a, a.focused_ws)[idx + 1]
       IN  World([a EXCEPT !.drag =
                    [active |-> TRUE, view |-> s.view, slot_index |-> idx,
                     hover_ws |-> -1, hover_large_ws |-> -1,
                     has_snapshot |-> FALSE, needs_capture |-> TRUE,
                     view_geo |-> get_geometry(w.core, s.view)]],
                 w.core)

\* update_drag(sl, gp) that also moves the target of the dragged window's
\* slot under the pointer
update_drag_following(w, sl, gp) ==
  IF ~w.av.drag.active THEN w
  ELSE LET hl == find_large_ws_at(w.av, sl)
           a1 == [w.av EXCEPT !.drag.hover_ws = find_thumb_ws_at(w.av, gp),
                              !.drag.hover_large_ws = IF hl = w.av.focused_ws THEN -1 ELSE hl]
       IN  IF a1.drag.slot_index >= 0 /\ a1.drag.slot_index < Len(slots_of(a1, a1.focused_ws))
           THEN World([a1 EXCEPT !.ws_windows[a1.focused_ws + 1].slots[a1.drag.slot_index + 1].target_geo =
                                    [@ EXCEPT !.x = TruncDiv(sl.x, og.width),
                                              !.y = TruncDiv(sl.y, og.height)]],
                      w.core)
           ELSE World(a1, w.core)

\* update_drag(sl, gp)
update_drag(w, sl, gp) ==
  IF ~w.av.drag.active THEN w
  ELSE LET hl == find_large_ws_at(w.av, sl)
       IN  World([w.av EXCEPT !.drag.hover_ws = find_thumb_ws_at(w.av, gp),
                              !.drag.hover_large_ws = IF hl = w.av.focused_ws THEN -1 ELSE hl],
                 w.core)

\* the drop target with the large preview taking priority
drop_target_large_first(a, sl, gp) ==
  LET tw == find_thumb_ws_at(a, gp)
      tl0 == find_large_ws_at(a, sl)
      tl == IF tl0 = a.focused_ws THEN -1 ELSE tl0
  IN  IF tl >= 0 THEN tl ELSE IF tw >= 0 /\ tw # a.focused_ws THEN tw ELSE -1

\* the drop target end_drag resolves: the workspace index, or -1
drop_target(a, sl, gp) ==
  LET tw == find_thumb_ws_at(a, gp)
      tl0 == find_large_ws_at(a, sl)
      tl == IF tl0 = a.focused_ws THEN -1 ELSE tl0
  IN  IF tw >= 0 /\ tw # a.focused_ws THEN tw ELSE IF tl >= 0 THEN tl ELSE -1

\* a move that takes every view along with the dragged one
move_every_view_to_workspace(w, view, wi) ==
  IF ~is_mapped(w.core, view) THEN w
  ELSE LET t == ws_index_to_point(w.av, wi)
           c == w.core.cur_ws
           g1 == get_geometry(w.core, "v1")
           g2 == get_geometry(w.core, "v2")
           c1 == view_move(w.core, "v1", g1.x + (t.x - c.x) * og.width, g1.y + (t.y - c.y) * og.height)
       IN  World(w.av, view_move(c1, "v2", g2.x + (t.x - c.x) * og.width,
                                 g2.y + (t.y - c.y) * og.height))

\* move_view_to_workspace(view, wi)
move_view_to_workspace(w, view, wi) ==
  IF ~is_mapped(w.core, view) THEN w
  ELSE LET t == ws_index_to_point(w.av, wi)
           c == w.core.cur_ws
           vg == get_geometry(w.core, view)
       IN  World(w.av, view_move(w.core, view, vg.x + (t.x - c.x) * og.width,
                                 vg.y + (t.y - c.y) * og.height))

\* the slots of workspace wi retargeted without setting is_animating
retarget_slots_unflagged(a, wi) ==
  LET old == slots_of(a, wi)
  IN  [a EXCEPT !.ws_windows[wi + 1].slots =
         [k \in 1..Len(old) |->
           [old[k] EXCEPT !.anim = geo_animate_to(geo_set_duration(@, anim_duration),
                                                  old[k].target_geo)]]]

\* every slot of workspace wi (0-based, in range): set_duration, animate_to(target_geo)
retarget_slots(a, wi) ==
  LET old == slots_of(a, wi)
  IN  [a EXCEPT !.ws_windows[wi + 1].slots =
         [k \in 1..Len(old) |->
           [old[k] EXCEPT !.anim = geo_animate_to(geo_set_duration(@, anim_duration),
                                                  old[k].target_geo)]],
                !.is_animating = TRUE]

\* rearrange_ws that recomputes the targets and starts no animation
rearrange_ws_without_animation(a, wi) ==
  IF wi < 0 \/ wi >= ws_count(a) THEN a ELSE arrange_ws_windows(a, wi)

\* rearrange_ws(wi)
rearrange_ws(a, wi) ==
  IF wi < 0 \/ wi >= ws_count(a) THEN a ELSE retarget_slots(arrange_ws_windows(a, wi), wi)

\* rearrange_focused_ws()
rearrange_focused_ws(a) == rearrange_ws(a, a.focused_ws)

\* add_view_to_ws(view, dest_ws)
add_view_to_ws(w, view, dest_ws) ==
  IF ~is_mapped(w.core, view) THEN w
  ELSE IF dest_ws < 0 \/ dest_ws >= ws_count(w.av) THEN w
  ELSE LET s0 == make_slot(w.av, w.core, view, dest_ws)
           ns == [s0 EXCEPT !.transformer = NewTransformer,
                            !.anim = geo_warp(geo_set_duration(@, anim_duration), s0.orig_geo)]
           a1 == [w.av EXCEPT !.ws_windows[dest_ws + 1].slots = Append(@, ns)]
       IN  World(rearrange_ws(a1, dest_ws), add_transformer(w.core, view))

\* the snap back that leaves the opacity of the slot as the drag left it
snap_back_still_hidden(a) ==
  IF a.drag.slot_index >= 0 /\ a.focused_ws >= 0 /\ a.focused_ws < ws_count(a)
     /\ a.drag.slot_index < Len(slots_of(a, a.focused_ws))
  THEN LET s == slots_of(a, a.focused_ws)[a.drag.slot_index + 1]
       IN  [a EXCEPT !.ws_windows[a.focused_ws + 1].slots[a.drag.slot_index + 1] =
                       [s EXCEPT !.anim = geo_animate_to(geo_set_duration(@, anim_duration),
                                                         s.target_geo)],
                     !.is_animating = TRUE]
  ELSE a

\* the snap back of end_drag and cancel_drag: the dragged slot returns to
\* its target_geo at the idle opacity
snap_back(a) ==
  IF a.drag.slot_index >= 0 /\ a.focused_ws >= 0 /\ a.focused_ws < ws_count(a)
     /\ a.drag.slot_index < Len(slots_of(a, a.focused_ws))
  THEN LET s == slots_of(a, a.focused_ws)[a.drag.slot_index + 1]
       IN  [a EXCEPT !.ws_windows[a.focused_ws + 1].slots[a.drag.slot_index + 1] =
                       [s EXCEPT !.transformer.alpha = IF s.transformer.null THEN @ ELSE AlphaIdle,
                                 !.anim = geo_animate_to(geo_set_duration(@, anim_duration),
                                                         s.target_geo)],
                     !.is_animating = TRUE]
  ELSE a

\* end_drag that leaves the slot of the dragged window in the focused
\* workspace
keep_dragged_slot(w) == w

\* the removal of the dragged slot from the focused workspace in end_drag
remove_dragged_slot(w) ==
  LET a == w.av
      k == a.drag.slot_index
  IN  IF k >= 0 /\ k < Len(slots_of(a, a.focused_ws))
      THEN LET s == slots_of(a, a.focused_ws)[k + 1]
           IN  World([a EXCEPT !.ws_windows[a.focused_ws + 1].slots = seq_erase(@, k)],
                     IF is_mapped(w.core, s.view) /\ ~s.transformer.null
                     THEN rem_transformer(w.core, s.view) ELSE w.core)
      ELSE w

\* whether end_drag(sl, gp) moves the dragged view
end_drag_moves(a, sl, gp) == a.drag.active /\ drop_target(a, sl, gp) >= 0 /\ a.drag.view # NoView

\* end_drag(sl, gp)
end_drag(w, sl, gp) ==
  IF ~w.av.drag.active THEN w
  ELSE IF end_drag_moves(w.av, sl, gp)
  THEN LET at == drop_target(w.av, sl, gp)
           moved_view == w.av.drag.view
           w1 == remove_dragged_slot(move_view_to_workspace(w, moved_view, at))
           a2 == rearrange_focused_ws([w1.av EXCEPT !.drag = drag_reset(@)])
       IN  add_view_to_ws(World(a2, w1.core), moved_view, at)
  ELSE World([snap_back(w.av) EXCEPT !.drag = drag_reset(@)], w.core)

\* cancel_drag()
cancel_drag(w) ==
  IF ~w.av.drag.active THEN w
  ELSE World([snap_back(w.av) EXCEPT !.drag = drag_reset(@)], w.core)

\* ------------------------------------------------------------------------
\* Clicks and hover
\* ------------------------------------------------------------------------

\* the screen-local position of the global position gp
to_local(gp) == Point(gp.x - og.x * og.width, gp.y - og.y * og.height)

\* handle_click(gp)
handle_click(w, gp) ==
  LET a == w.av
      lp == to_local(gp)
      lws == find_large_ws_at(a, lp)
      ws == find_thumb_ws_at(a, gp)
  IN  IF find_view_at(a, lp) # NoView THEN deactivate(w)
      ELSE IF lws >= 0 /\ lws # a.focused_ws THEN navigate_to(w, lws)
      ELSE IF ws >= 0 /\ ws < Len(a.ws_geos)
           THEN IF ws # a.cur_ws.y * a.ws_cols + a.cur_ws.x
                THEN deactivate_to_ws(w, ws) ELSE deactivate(w)
      ELSE deactivate(w)

\* update_hover(sl)
update_hover(w, sl) ==
  IF w.av.drag.active THEN w
  ELSE LET a == w.av
           nv == find_view_at(a, sl)
       IN  IF nv = a.hovered_view THEN w
           ELSE LET a1 == IF a.focused_ws >= 0 /\ a.focused_ws < ws_count(a)
                          THEN LET old == slots_of(a, a.focused_ws)
                               IN  [a EXCEPT !.ws_windows[a.focused_ws + 1].slots =
                                      [k \in 1..Len(old) |->
                                        [old[k] EXCEPT !.hovered = (old[k].view = nv)]]]
                          ELSE a
                IN  World([a1 EXCEPT !.hovered_view = nv], w.core)

\* ------------------------------------------------------------------------
\* overview_node_t::render_instance_t: the per-frame capture
\* ------------------------------------------------------------------------

\* capture_drag_snapshot(scale): the dragged slot is drawn once into the
\* snapshot at full opacity, then hidden
capture_drag_snapshot(w) ==
  LET a == w.av
      drg == a.drag
      fws == a.focused_ws
  IN  IF ~drg.needs_capture \/ drg.slot_index < 0 THEN a
      ELSE IF fws < 0 \/ fws >= ws_count(a) THEN a
      ELSE IF drg.slot_index >= Len(slots_of(a, fws)) THEN a
      ELSE LET s == slots_of(a, fws)[drg.slot_index + 1]
           IN  IF s.view = NoView \/ ~is_mapped(w.core, s.view) \/ s.transformer.null
               THEN [a EXCEPT !.drag.needs_capture = FALSE]
               ELSE IF drg.view_geo.width <= 0 \/ drg.view_geo.height <= 0
               THEN [a EXCEPT !.drag.needs_capture = FALSE]
               ELSE [a EXCEPT !.ws_windows[fws + 1].slots[drg.slot_index + 1].transformer.alpha =
                                AlphaHidden,
                              !.drag.needs_capture = FALSE, !.drag.has_snapshot = TRUE]

\* the slots of every workspace, as a set
all_slots(a) ==
  UNION {{a.ws_windows[i].slots[k] : k \in 1..Len(a.ws_windows[i].slots)} : i \in 1..Len(a.ws_windows)}

\* the opacity view v is drawn with by a workspace stream: the alpha of the
\* transformer on its node, full opacity without one, 0 for a view that
\* is not drawn
drawn_alpha(a, c, v) ==
  IF ~is_mapped(c, v) THEN 0
  ELSE LET ss == {s \in all_slots(a) : s.view = v /\ ~s.transformer.null}
       IN  IF ss = {} THEN AlphaFull ELSE (CHOOSE s \in ss : TRUE).transformer.alpha

\* schedule_instructions(): the one-time snapshot, then the capture loop
\* over the workspace streams.  The result is the object and, for the
\* dragged view, the opacity the loop drew it with (0 for every other view).
schedule_instructions(w) ==
  LET a1 == IF w.av.drag.needs_capture THEN capture_drag_snapshot(w) ELSE w.av
  IN  [av |-> a1,
       fb |-> [v \in Views |-> IF v = a1.drag.view THEN drawn_alpha(a1, w.core, v) ELSE 0]]

\* ------------------------------------------------------------------------
\* overview_output_t: hooks and input handlers.  A handler takes and
\* returns the triple [av, core, ov]
\* ------------------------------------------------------------------------

DRAG_THRESHOLD == 8

Sys(a, c, o) == [av |-> a, core |-> c, ov |-> o]

\* the pair w of view object and compositor, with the fields o
World_Sys(w, o) == Sys(w.av, w.core, o)

ov_new == [hooks_active |-> FALSE, button_held |-> FALSE, press_pos |-> Point(0, 0),
           drag_started |-> FALSE]

activate_hooks(o) == IF o.hooks_active THEN o ELSE [o EXCEPT !.hooks_active = TRUE]

deactivate_hooks(o) ==
  IF ~o.hooks_active THEN o
  ELSE [o EXCEPT !.hooks_active = FALSE, !.button_held = FALSE, !.drag_started = FALSE]

\* activities_view_t::toggle()
av_toggle(w) == IF w.av.is_active THEN deactivate(w) ELSE activate(w)

\* overview_output_t::toggle()
toggle(st) ==
  LET hooked(w1) == Sys(w1.av, w1.core, IF w1.av.is_active THEN activate_hooks(st.ov) ELSE st.ov)
  IN  hooked(av_toggle(World(st.av, st.core)))

\* the frame hook that ticks and never removes itself
pre_hook_keeping_hooks(st) ==
  World_Sys(tick(World(st.av, st.core)), st.ov)

\* pre_hook
pre_hook(st) ==
  LET wa == st.av.is_animating
      wd == st.av.drag.active
      wc == anim_is_animating(st.av.carousel_scroll)
      after_tick(w1) ==
        IF w1.av.is_animating \/ w1.av.drag.active \/ anim_is_animating(w1.av.carousel_scroll)
        THEN Sys(w1.av, w1.core, st.ov)
        ELSE IF (wa \/ wd \/ wc) /\ ~w1.av.is_animating /\ ~w1.av.is_active
             THEN Sys(w1.av, w1.core, deactivate_hooks(st.ov))
             ELSE Sys(w1.av, w1.core, st.ov)
  IN  after_tick(tick(World(st.av, st.core)))

\* the threshold test that a travel of exactly DRAG_THRESHOLD passes
beyond_threshold_inclusive(press, cursor) ==
  LET dx == TruncDiv(cursor.x - press.x, og.width)
      dy == TruncDiv(cursor.y - press.y, og.height)
  IN  dx * dx + dy * dy >= DRAG_THRESHOLD * DRAG_THRESHOLD

\* std::sqrt(dx*dx + dy*dy) > DRAG_THRESHOLD for the pointer travel from
\* press to cursor (pointer positions of the model are whole pixels)
beyond_threshold(press, cursor) ==
  LET dx == TruncDiv(cursor.x - press.x, og.width)
      dy == TruncDiv(cursor.y - press.y, og.height)
  IN  dx * dx + dy * dy > DRAG_THRESHOLD * DRAG_THRESHOLD

\* handle_motion(cursor)
handle_motion(st, cursor) ==
  IF ~(st.av.is_active /\ ~st.av.is_animating) THEN st
  ELSE LET local == to_local(cursor)
           try == st.ov.button_held /\ ~st.ov.drag_started
                  /\ beyond_threshold(st.ov.press_pos, cursor)
           pl == to_local(st.ov.press_pos)
           w0 == World(st.av, st.core)
           moved(w1, o1) ==
             World_Sys(IF o1.drag_started /\ w1.av.drag.active
                       THEN update_drag(w1, local, cursor) ELSE update_hover(w1, local), o1)
       IN  IF try
           THEN moved(start_drag(w0, pl), [st.ov EXCEPT !.drag_started = start_drag_ok(st.av, pl)])
           ELSE moved(w0, st.ov)

\* handle_button(BTN_LEFT, PRESSED, cursor) outside the panel's button
handle_press(st, cursor) ==
  IF st.av.is_active /\ ~st.av.is_animating
  THEN [st EXCEPT !.ov.button_held = TRUE, !.ov.press_pos = cursor, !.ov.drag_started = FALSE]
  ELSE st

\* handle_button(BTN_LEFT, RELEASED, cursor)
handle_release(st, cursor) ==
  LET wd == st.ov.drag_started /\ st.av.drag.active
      wh == st.ov.button_held
      o1 == [st.ov EXCEPT !.button_held = FALSE, !.drag_started = FALSE]
      w0 == World(st.av, st.core)
      released(w1) == Sys(w1.av, w1.core, o1)
  IN  IF wd THEN released(end_drag(w0, to_local(cursor), cursor))
      ELSE IF wh /\ st.av.is_active /\ ~st.av.is_animating
           THEN released(handle_click(w0, cursor))
           ELSE released(w0)

\* ------------------------------------------------------------------------
\* The pointer positions the environment delivers
\* ------------------------------------------------------------------------

\* the pixel at the centre of thumbnail ws_idx, on the screen (Y down)
ThumbPoint(a, ws_idx) ==
  LET g == a.ws_geos[ws_idx + 1]
  IN  PixelPoint(g.x + g.width \div 2, og.height - (g.y + g.height \div 2))

\* whether a part of the large preview of ws_idx is on the screen
large_visible(a, ws_idx) ==
  LET dg == get_large_ws_render_geo(a, ws_idx)
  IN  dg.width > 0 /\ Max(dg.x, 0) < Min(dg.x + dg.width, og.width)

\* the pixel in the middle of the on-screen part of the large preview
LargePoint(a, ws_idx) ==
  LET dg == get_large_ws_render_geo(a, ws_idx)
  IN  PixelPoint((Max(dg.x, 0) + Min(dg.x + dg.width, og.width)) \div 2, dg.y + dg.height \div 2)

\* the pixel at the centre of the screen rectangle of slot k (0-based) of
\* the focused workspace
SlotPoint(a, k) ==
  LET sg == screen_geo_of(a, geo_current(slots_of(a, a.focused_ws)[k + 1].anim))
  IN  PixelPoint(sg.x + sg.width \div 2, sg.y + sg.height \div 2)

\* the positions of button and motion events: the thumbnails, the large
\* previews beside the focused one, the slots of the focused workspace
PointerPoints(a) ==
  IF ~a.is_active THEN {}
  ELSE {ThumbPoint(a, i) : i \in 0..(a.total_ws - 1)}
       \cup {LargePoint(a, i) : i \in {j \in 0..(a.total_ws - 1) : j # a.focused_ws /\ large_visible(a, j)}}
       \cup (IF a.focused_ws >= 0 /\ a.focused_ws < ws_count(a)
             THEN {SlotPoint(a, k) : k \in 0..(Len(slots_of(a, a.focused_ws)) - 1)}
             ELSE {})

\* ------------------------------------------------------------------------
\* Initial state and steps
\* ------------------------------------------------------------------------

NoProbe == [op |-> "none"]

Init ==
  /\ \E home \in 0..1 :
       core = core_new(InitViews(home), wsize)
  /\ av = av_new
  /\ ov = ov_new
  /\ fb = [v \in Views |-> 0]
  /\ used = [drops |-> 0, opens |-> 0, closes |-> 0, presses |-> 0, unmaps |-> 0]
  /\ input_open = TRUE
  /\ probe = NoProbe

\* the step to the result st of a handler
Becomes(st) == av' = st.av /\ core' = st.core /\ ov' = st.ov

Here == Sys(av, core, ov)

\* the toggle binding, or a press on the panel's button
Toggle ==
  /\ input_open
  /\ IF av.is_active THEN used.closes < MaxCloses ELSE used.opens < MaxSessions
  /\ Becomes(toggle(Here))
  /\ used' = IF av.is_active THEN [used EXCEPT !.closes = @ + 1] ELSE [used EXCEPT !.opens = @ + 1]
  /\ UNCHANGED <<fb, input_open, probe>>

\* a left button press outside the panel's button; the handler returns
\* early unless the overview is active and idle
Press(p) ==
  /\ input_open
  /\ used.presses < MaxPresses
  /\ av.is_active /\ ~av.is_animating
  /\ Becomes(handle_press(Here, p))
  /\ used' = [used EXCEPT !.presses = @ + 1]
  /\ UNCHANGED <<fb, input_open, probe>>

\* a pointer motion; the handler does nothing unless the overview is
\* active and idle
Motion(p) ==
  /\ input_open
  /\ av.is_active /\ ~av.is_animating
  /\ Becomes(handle_motion(Here, p))
  /\ UNCHANGED <<fb, used, input_open, probe>>

\* whether the release at p drops the dragged view on another workspace
is_drop(p) == ov.drag_started /\ end_drag_moves(av, to_local(p), p)

\* a left button release; it finds nothing to do unless a press was
\* accepted or a drag started
Release(p) ==
  /\ input_open
  /\ ov.button_held \/ ov.drag_started
  /\ is_drop(p) => used.drops < MaxDrops
  /\ Becomes(handle_release(Here, p))
  /\ used' = IF is_drop(p) THEN [used EXCEPT !.drops = @ + 1] ELSE used
  /\ UNCHANGED <<fb, input_open, probe>>

\* one output frame after dt milliseconds: the pre-render effect hook,
\* then the render pass of the overview node while it is in the scene
Frame(dt) ==
  /\ ov.hooks_active
  /\ LET drawn(st, r) == Becomes(Sys(r.av, st.core, st.ov)) /\ fb' = r.fb
         rendered(st) ==
           IF st.ov.hooks_active
           THEN drawn(st, schedule_instructions(World(st.av, st.core)))
           ELSE Becomes(st) /\ fb' = fb
     IN  rendered(pre_hook(Sys(advance_clock(av, dt), core, ov)))
  /\ probe' = IF probe.op = "deactivate" THEN [probe EXCEPT !.frame = ~@] ELSE probe
  /\ UNCHANGED <<used, input_open>>

\* a client unmaps its window
Unmap(v) ==
  /\ is_mapped(core, v)
  /\ used.unmaps < MaxUnmaps
  /\ core' = [core EXCEPT !.views[v].mapped = FALSE]
  /\ used' = [used EXCEPT !.unmaps = @ + 1]
  /\ UNCHANGED <<av, ov, fb, input_open, probe>>

Next ==
  \/ Toggle
  \/ \E p \in PointerPoints(av) : Press(p)
  \/ \E p \in PointerPoints(av) : Motion(p)
  \/ \E p \in PointerPoints(av) : Release(p)
  \/ \E dt \in FrameTimes : Frame(dt)
  \/ \E v \in Unmappable : Unmap(v)

Spec == Init /\ [][Next]_vars

\* ------------------------------------------------------------------------
\* The public methods called directly, each in the situation its contract
\* speaks of
\* ------------------------------------------------------------------------

\* activate() on an overview that is already active
ApiActivate ==
  /\ input_open
  /\ av.is_active
  /\ Becomes(World_Sys(activate(World(av, core)), ov))
  /\ UNCHANGED <<fb, used, input_open, probe>>

\* deactivate() on an overview that is not active
ApiDeactivate ==
  /\ input_open
  /\ ~av.is_active
  /\ Becomes(World_Sys(deactivate(World(av, core)), ov))
  /\ UNCHANGED <<fb, used, input_open, probe>>

\* cancel_drag() during a drag session
ApiCancelDrag ==
  /\ input_open
  /\ av.drag.active
  /\ Becomes(World_Sys(cancel_drag(World(av, core)), ov))
  /\ UNCHANGED <<fb, used, input_open, probe>>

\* start_drag() at a point inside a slot, followed at once by cancel_drag();
\* the last call made on the overview: only frames follow it
ApiDragRoundTrip(p) ==
  /\ input_open
  /\ av.is_active
  /\ start_drag_ok(av, to_local(p))
  /\ Becomes(World_Sys(cancel_drag(start_drag(World(av, core), to_local(p))), ov))
  /\ input_open' = FALSE
  /\ probe' = [op |-> "round_trip", slot |-> find_slot_at(av, to_local(p))]
  /\ UNCHANGED <<fb, used>>

NextApi ==
  \/ Next
  \/ ApiActivate
  \/ ApiDeactivate
  \/ ApiCancelDrag
  \/ \E p \in PointerPoints(av) : ApiDragRoundTrip(p)

SpecApi == Init /\ [][NextApi]_vars

\* ------------------------------------------------------------------------
\* A last deactivate() after which no input arrives and frames keep coming
\* ------------------------------------------------------------------------

\* the entry animation of activate() is in flight: nothing else has started
\* an animation yet
entry_in_flight == av.is_active /\ av.is_animating /\ used.closes = 0 /\ used.presses = 0

FinalDeactivate ==
  /\ input_open
  /\ av.is_active
  /\ Becomes(World_Sys(deactivate(World(av, core)), ov))
  /\ input_open' = FALSE
  /\ probe' = [op |-> "deactivate", mid_entry |-> entry_in_flight,
               cur_ws |-> core.cur_ws, focused_ws |-> av.focused_ws, frame |-> FALSE]
  /\ UNCHANGED <<fb, used>>

NextLive == Next \/ FinalDeactivate

\* a frame rendered after the last deactivate(): probe.frame tells one
\* frame from the next, so that a frame that changes nothing else is
\* still a step
FrameComes ==
  /\ probe.op = "deactivate"
  /\ ov.hooks_active
  /\ probe' = [probe EXCEPT !.frame = ~@]

\* while the hooks are connected the output keeps rendering frames, and
\* time passes between them
LiveSpec == Init /\ [][NextLive]_vars /\ WF_probe(FrameComes)

\* ------------------------------------------------------------------------
\* end_drag(sl, gp) called with any two points, on three workspaces
\* ------------------------------------------------------------------------

InitWide ==
  /\ \E home \in 0..1 : core = core_new(InitViews(home), wsize_wide)
  /\ av = av_new
  /\ ov = ov_new
  /\ fb = [v \in Views |-> 0]
  /\ used = [drops |-> 0, opens |-> 0, closes |-> 0, presses |-> 0, unmaps |-> 0]
  /\ input_open = TRUE
  /\ probe = NoProbe

\* end_drag(sl, gp) during a drag session, the last call made on the
\* overview; tw and tl are the thumbnail under gp and the large preview
\* under sl when it is made
ApiEndDrag(sl, gp) ==
  /\ input_open
  /\ av.drag.active
  /\ Becomes(World_Sys(end_drag(World(av, core), to_local(sl), gp), ov))
  /\ input_open' = FALSE
  /\ probe' = [op |-> "end_drag", view |-> av.drag.view, focused |-> av.focused_ws,
               tw |-> find_thumb_ws_at(av, gp), tl |-> find_large_ws_at(av, to_local(sl))]
  /\ UNCHANGED <<fb, used>>

NextDrop ==
  \/ Toggle
  \/ \E p \in PointerPoints(av) : Press(p)
  \/ \E p \in PointerPoints(av) : Motion(p)
  \/ \E dt \in FrameTimes : Frame(dt)
  \/ \E v \in Unmappable : Unmap(v)
  \/ \E sl, gp \in PointerPoints(av) : ApiEndDrag(sl, gp)

SpecDrop == InitWide /\ [][NextDrop]_vars

\* ------------------------------------------------------------------------
\* The grid selection on its own
\* ------------------------------------------------------------------------

\* area aspects as numerator and denominator; at 2:1 and 5:2 two column
\* counts have the same score for some window counts
GridAspects ==
  {<<16, 9>>, <<4, 3>>, <<1, 1>>, <<21, 9>>, <<9, 16>>, <<1525, 858>>, <<2, 1>>, <<5, 2>>}

\* output sizes the layout is computed for
GridOutputs ==
  {Rect(0, 0, 1920, 1080), Rect(0, 0, 1280, 1024), Rect(0, 0, 1080, 1920), Rect(0, 0, 2560, 1080)}

\* window sizes of the layout's slots, taken in turn from position shift on
GridSizes ==
  <<[w |-> 800, h |-> 600], [w |-> 1920, h |-> 1080], [w |-> 300, h |-> 900],
    [w |-> 2000, h |-> 200], [w |-> 1920, h |-> 4]>>

GridShifts == 0..1

grid_slots(n, shift) ==
  [i \in 1..n |->
     LET sz == GridSizes[((i + shift) % Len(GridSizes)) + 1]
     IN  NewSlot("v1", Rect(10 * i, 20 * i, sz.w, sz.h))]

GridInit ==
  /\ core = core_new(InitViews(0), wsize)
  /\ av = av_new
  /\ ov = ov_new
  /\ fb = [v \in Views |-> 0]
  /\ used = [drops |-> 0, opens |-> 0, closes |-> 0, presses |-> 0, unmaps |-> 0]
  /\ input_open = FALSE
  /\ \E n \in 0..MaxGridN, asp \in GridAspects, o \in GridOutputs, shift \in GridShifts :
       probe = [op |-> "gnome_grid", n |-> n, an |-> asp[1], ad |-> asp[2],
                o |-> o, slots |-> grid_slots(n, shift),
                done |-> FALSE, cols |-> 0, rows |-> 0]

\* gnome_grid for the aspect given, and arrange_ws_windows for the slots
\* given on the output given
GridApply ==
  /\ probe.op = "gnome_grid"
  /\ ~probe.done
  /\ LET g == gnome_grid(probe.n, probe.an, probe.ad)
     IN  probe' = [probe EXCEPT !.done = TRUE, !.cols = g.cols, !.rows = g.rows,
                                !.slots = arrange_slots_on(probe.o, spacing, probe.slots,
                                            main_preview_geo(probe.o, spacing, panel_height))]
  /\ UNCHANGED <<core, av, ov, fb, used, input_open>>

SpecGrid == GridInit /\ [][GridApply]_vars

\* ------------------------------------------------------------------------
\* A scalar animation on its own
\* ------------------------------------------------------------------------

AnimValues == {0, 100, -50, 1920}

AnimGoals == {0, 43, 1525, -7}

AnimDurations == {50, 100, 300}

AnimSteps == {0, 50, 100, 150, 300}

\* an anim_t constructed at value v and given the duration d
AnimInit ==
  /\ core = core_new(InitViews(0), wsize)
  /\ av = av_new
  /\ ov = ov_new
  /\ fb = [v \in Views |-> 0]
  /\ used = [drops |-> 0, opens |-> 0, closes |-> 0, presses |-> 0, unmaps |-> 0]
  /\ input_open = FALSE
  /\ \E v \in AnimValues, g \in AnimGoals, d \in AnimDurations :
       probe = [op |-> "anim", a |-> anim_set_duration(anim_new(v), d), g |-> g,
                started |-> FALSE, since |-> 0, ticks |-> 0, ret |-> FALSE]

\* animate_to(g)
AnimStart ==
  /\ probe.op = "anim" /\ ~probe.started
  /\ probe' = [probe EXCEPT !.a = anim_animate_to(@, probe.g), !.started = TRUE]
  /\ UNCHANGED <<core, av, ov, fb, used, input_open>>

\* warp(v), before the animation is started
AnimWarp(v) ==
  /\ probe.op = "anim" /\ ~probe.started
  /\ probe' = [probe EXCEPT !.a = anim_warp(@, v)]
  /\ UNCHANGED <<core, av, ov, fb, used, input_open>>

\* tick() called dt milliseconds after the call before it; ret is what it
\* returns, since the time since animate_to
AnimTick(dt) ==
  /\ probe.op = "anim" /\ probe.started
  /\ probe.since + dt <= MaxAnimTime
  /\ LET a1 == anim_tick(anim_advance(probe.a, dt))
     IN  probe' = [probe EXCEPT !.a = a1, !.since = @ + dt, !.ticks = Min(@ + 1, 2),
                                !.ret = anim_is_animating(a1)]
  /\ UNCHANGED <<core, av, ov, fb, used, input_open>>

NextAnim ==
  \/ AnimStart
  \/ \E v \in AnimValues : AnimWarp(v)
  \/ \E dt \in AnimSteps : AnimTick(dt)

SpecAnim == AnimInit /\ [][NextAnim]_vars

\* ------------------------------------------------------------------------
\* The end of the entry animation on its own, for any output and spacing
\* ------------------------------------------------------------------------

EntryOutputs ==
  {Rect(0, 0, 1920, 1080), Rect(0, 0, 1280, 1024), Rect(0, 0, 1080, 1920), Rect(0, 0, 2560, 1080),
   Rect(0, 0, 3840, 2160), Rect(0, 0, 800, 600), Rect(0, 0, 640, 480), Rect(0, 0, 320, 240),
   Rect(0, 0, 80, 60)}

\* values of the spacing option
EntrySpacings == {-40, 0, 10, 20, 40}

\* values of the panel height option
EntryPanels == {0, 16, 32}

\* the main preview animation as activate() leaves it: warped to the
\* full output, animating to preview_geo
EntryInit ==
  /\ core = core_new(InitViews(0), wsize)
  /\ av = av_new
  /\ ov = ov_new
  /\ fb = [v \in Views |-> 0]
  /\ used = [drops |-> 0, opens |-> 0, closes |-> 0, presses |-> 0, unmaps |-> 0]
  /\ input_open = FALSE
  /\ \E o \in EntryOutputs, sp \in EntrySpacings, ph \in EntryPanels :
       probe = [op |-> "entry", o |-> o, sp |-> sp, ph |-> ph,
                desktop_anim |-> geo_animate_to(geo_warp(anim_geo_new, Rect(0, 0, o.width, o.height)),
                                                main_preview_geo(o, sp, ph)),
                is_animating |-> TRUE, is_active |-> TRUE]

\* the tick at which the entry animation ends, and its check_done()
EntryFinish ==
  /\ probe.op = "entry" /\ probe.is_animating
  /\ LET d1 == geo_tick(geo_advance(probe.desktop_anim, default_duration_ms))
     IN  probe' = [probe EXCEPT !.desktop_anim = d1, !.is_animating = FALSE,
                                !.is_active = ~back_at_full_width(geo_current(d1), probe.o)]
  /\ UNCHANGED <<core, av, ov, fb, used, input_open>>

SpecEntry == EntryInit /\ [][EntryFinish]_vars

\* ------------------------------------------------------------------------
\* Properties
\* ------------------------------------------------------------------------

Fullscreen == Rect(0, 0, og.width, og.height)

\* no animation of the object is running
AllFinished(a) ==
  ~geo_is_animating(a.desktop_anim) /\ ~anim_is_animating(a.carousel_scroll) /\ ~any_slot_animating(a)

\* a step that completes a drop of the dragged view on another workspace
DropStep == used'.drops = used.drops + 1

\* the workspaces whose slot list holds view v
slot_workspaces(a, v) ==
  {i \in 0..(ws_count(a) - 1) : \E k \in 1..Len(slots_of(a, i)) : slots_of(a, i)[k].view = v}

\* the 4 windows, 16:9 case of the grid selection has been computed
GridCase == probe.op = "gnome_grid" /\ probe.done /\ probe.n = 4 /\ probe.an = 16 /\ probe.ad = 9

\* C10 as stated: for 4 windows and a 16:9 area the grid selection
\* returns cols = 2 and rows = 2.
C10_TwoByTwo == GridCase => (probe.cols = 2 /\ probe.rows = 2)

\* C10, amended: for 4 windows and a 16:9 area the grid selection
\* returns cols = 3 and rows = 2 (score 0.40625 against 0.4375 for 2 x 2).
C10_ThreeByTwo == GridCase => (probe.cols = 3 /\ probe.rows = 2)

C10_Witness == GridCase

\* rectangle a lies inside rectangle b
inside(a, b) ==
  /\ a.x >= b.x /\ a.y >= b.y
  /\ a.x + a.width <= b.x + b.width /\ a.y + a.height <= b.y + b.height

\* rectangles a and b share no point
disjoint(a, b) ==
  \/ a.x + a.width <= b.x \/ b.x + b.width <= a.x
  \/ a.y + a.height <= b.y \/ b.y + b.height <= a.y

\* the layout of the slots given has been computed
LayoutCase == probe.op = "gnome_grid" /\ probe.done /\ probe.n >= 1

AllAtTarget(a) ==
  \A i \in 1..Len(a.ws_windows) : \A k \in 1..Len(a.ws_windows[i].slots) :
    geo_current(a.ws_windows[i].slots[k].anim) = a.ws_windows[i].slots[k].target_geo

\* C12: a frame of the entry animation at which the time since activate()
\* is at least the configured duration leaves is_animating false and
\* every slot's current geometry equal to its target geometry.
C12_EntryCompletes ==
  [][\A dt \in FrameTimes :
       (entry_in_flight /\ av.desktop_anim.x.elapsed + dt >= anim_duration /\ Frame(dt)) =>
         (av'.is_active /\ ~av'.is_animating /\ AllAtTarget(av'))]_vars

\* the entry animation has completed, with a window unmapped on the way
C12_Witness ==
  /\ av.is_active /\ ~av.is_animating /\ used.presses = 0 /\ used.closes = 0
  /\ used.unmaps = 1
  /\ Len(slots_of(av, 0)) = 2 /\ AllAtTarget(av)

\* C13: a tick of a scalar animation at which the time since animate_to
\* is at least the duration leaves the value at the goal, ends the
\* animation and returns false, whether it is the first such tick or a
\* later one.
C13_AnimConverges ==
  [][(probe.op = "anim" /\ probe.started /\ probe'.ticks > 0
      /\ probe'.since >= probe.a.duration_ms) =>
       (probe'.a.val = probe.g /\ ~probe'.a.animating /\ ~probe'.ret)]_vars

\* the animation was ticked before its end, at its end and after it
C13_Witness ==
  /\ probe.op = "anim" /\ probe.ticks = 2 /\ probe.since > probe.a.duration_ms
  /\ probe.a.start # probe.g /\ probe.a.val = probe.g /\ ~probe.a.animating

\* the transformers that the slots of view v hold
transformers_of(a, v) ==
  LET held == UNION {{a.ws_windows[i].slots[k] : k \in 1..Len(a.ws_windows[i].slots)} :
                       i \in 1..Len(a.ws_windows)}
  IN  {s.transformer : s \in {h \in held : h.view = v /\ ~h.transformer.null}}

\* C14 as stated: no step of the overview works on a window that is not
\* mapped: no drag session starts on it, the transformer of its slot is
\* not written, the window is not moved, no transformer is added to or
\* removed from its node, and no slot is made for it.
C14_UnmappedSkipped ==
  [][\A v \in Views :
       ~is_mapped(core, v) =>
         /\ (av'.drag.active /\ av'.drag.view = v) => (av.drag.active /\ av.drag.view = v)
         /\ transformers_of(av', v) \subseteq transformers_of(av, v)
         /\ core'.views[v].geo = core.views[v].geo
         /\ core'.node_transformers[v] = core.node_transformers[v]
         /\ slot_workspaces(av', v) \subseteq slot_workspaces(av, v)]_vars

\* C15: end_drag leaves no drag session (not active, nothing to capture,
\* no snapshot) whatever the two points and whether or not the dragged
\* window is mapped; the slot of a mapped dragged window ends on the
\* workspace of the thumbnail under gp if there is one other than the
\* focused workspace, else on that of the large preview under sl if
\* there is one other than the focused workspace, else it stays on the
\* focused workspace.
C15_DropTargetPriority ==
  [][(probe.op = "none" /\ probe'.op = "end_drag") =>
       LET F == av.focused_ws
           tw == probe'.tw
           tl == probe'.tl
           v == av.drag.view
           goes == IF tw >= 0 /\ tw # F THEN tw ELSE IF tl >= 0 /\ tl # F THEN tl ELSE F
       IN  /\ ~av'.drag.active /\ ~av'.drag.needs_capture /\ ~av'.drag.has_snapshot
           /\ is_mapped(core, v) => slot_workspaces(av', v) = {goes}
           /\ (goes # F) \/ slot_workspaces(av', v) = {F}]_vars

\* a drag ended over the thumbnail of one workspace and the large preview
\* of another, neither the focused one, and the slot went to the
\* thumbnail's workspace
C15_Witness ==
  /\ probe.op = "end_drag" /\ probe.tw >= 0 /\ probe.tl >= 0 /\ probe.tw # probe.tl
  /\ probe.tw # probe.focused /\ probe.tl # probe.focused
  /\ slot_workspaces(av, probe.view) = {probe.tw}
  /\ ~av.drag.active

\* C16 as stated: a release that ends a click on the slot of a window,
\* on an active and idle overview, gives that window the input focus and
\* starts the exit (the zoom of the desktop back to the full output).
C16_ClickFocusesWindow ==
  [][\A p \in PointerPoints(av) :
       (/\ av.is_active /\ ~av.is_animating /\ ov.button_held /\ ~ov.drag_started
        /\ find_view_at(av, to_local(p)) # NoView
        /\ Release(p)) =>
         (/\ core'.focus = find_view_at(av, to_local(p))
          /\ av'.is_animating /\ geo_goal(av'.desktop_anim) = Fullscreen)]_vars

\* C17: the geometry of a window changes only in the step that drops it
\* on another workspace: every other step of the overview (activate,
\* deactivate, deactivate_to_ws, navigate_to, a frame's tick and capture,
\* start_drag, update_drag, cancel_drag, end_drag without a target) leaves
\* the geometry of every window as it was, and a drop leaves that of
\* every window but the dragged one.
C17_GeometryOnlyMovedByDrop ==
  [][\A v \in Views :
       core'.views[v].geo # core.views[v].geo =>
         (av.drag.active /\ av.drag.view = v /\ DropStep)]_vars

\* v1 has been dropped on the workspace to the right and moved there, v2
\* has stayed where it was
C17_Witness ==
  /\ used.drops = 1
  /\ core.views["v1"].geo = Rect(100 + og.width, 100, 800, 600)
  /\ core.views["v2"].geo.y = 300 /\ core.views["v2"].geo.width = 640

\* C18 as stated: in every state of a scalar animation reached through
\* the constructor, warp, animate_to and tick, animating is false exactly
\* when the value equals the goal.
C18_AnimatingIffNotAtGoal ==
  probe.op = "anim" => (~probe.a.animating <=> probe.a.val = probe.a.goal)

\* C19 as stated: every slot laid out has an original geometry of
\* positive width and height and is given a target geometry of positive
\* width and height, whatever the size of its window.
C19_PositiveDimensions ==
  LayoutCase =>
    \A i \in 1..probe.n :
      /\ probe.slots[i].orig_geo.width > 0 /\ probe.slots[i].orig_geo.height > 0
      /\ probe.slots[i].target_geo.width > 0 /\ probe.slots[i].target_geo.height > 0

\* C20 as stated: when the entry animation has finished, on any output
\* size and with any spacing, the completion check leaves the session
\* active.
C20_EntryStaysActive ==
  (probe.op = "entry" /\ ~probe.is_animating) => probe.is_active

\* workspace-local points strictly inside the rectangle g
InnerPoints(g) ==
  IF g.width < 2 \/ g.height < 2 THEN {}
  ELSE {Point(g.x + 1, g.y + 1), Point(g.x + g.width \div 2, g.y + g.height \div 2),
        Point(g.x + g.width - 1, g.y + g.height - 1)}

\* whether a slot after slot k (0-based) of the list also contains pt
covered_later(slots, k, pt) ==
  \E j \in (k + 2)..Len(slots) :
    LET h == geo_current(slots[j].anim)
    IN  pt.x >= h.x /\ pt.x < h.x + h.width /\ pt.y >= h.y /\ pt.y < h.y + h.height

\* C9: hit-testing inverts placement.  For every slot of the focused
\* workspace with current geometry G and every workspace-local point
\* strictly inside G that no later slot contains, the forward image of the
\* point on the screen hit-tests to that slot.
C9_HitTestInvertsPlacement ==
  (av.is_active /\ av.focused_ws >= 0 /\ av.focused_ws < ws_count(av)) =>
    LET slots == slots_of(av, av.focused_ws)
    IN  \A k \in 0..(Len(slots) - 1) :
          \A pt \in InnerPoints(geo_current(slots[k + 1].anim)) :
            ~covered_later(slots, k, pt) =>
              find_slot_at(av, ws_local_to_screen(av, pt.x, pt.y)) = k

\* C8: once the snapshot of a drag exists, every workspace capture pass
\* until the drag ends draws the dragged window with near-zero opacity (or
\* does not draw it at all).
C8_DraggedHiddenInCaptures ==
  (av.drag.active /\ av.drag.has_snapshot) => fb[av.drag.view] \in {AlphaHidden, 0}

\* C5: a drop of a mapped window from the focused workspace S on the
\* workspace T moves the real window by ((T.x - S.x) * width,
\* (T.y - S.y) * height), and its centre then lies in T.
C5_DropMovesBySourceOffset ==
  [][(DropStep /\ is_mapped(core, av.drag.view)) =>
       LET v == av.drag.view
           S == ws_index_to_point(av, av.focused_ws)
       IN  \E ti \in slot_workspaces(av', v) :
             LET T == ws_index_to_point(av, ti)
             IN  /\ core'.views[v].geo.x = core.views[v].geo.x + (T.x - S.x) * og.width
                 /\ core'.views[v].geo.y = core.views[v].geo.y + (T.y - S.y) * og.height
                 /\ view_workspace(core', v) = T]_vars

\* C3: activate() on an active overview, a closing one included, changes
\* no overview state, and deactivate() on an inactive overview changes
\* none.
C3_Idempotent ==
  /\ av.is_active => activate(World(av, core)) = World(av, core)
  /\ ~av.is_active => deactivate(World(av, core)) = World(av, core)

\* the overview is active and its closing animation is running
C3_Witness ==
  av.is_active /\ av.is_animating /\ used.closes = 1 /\ geo_goal(av.desktop_anim) = Fullscreen

\* C4: the compositor's current workspace changes only in the completion
\* check of a closing session, in a frame whose tick left no slot
\* rectangle, main-preview rectangle or carousel scroll animating; it
\* then becomes the pending workspace.
C4_SwitchOnlyAtCompletion ==
  [][core'.cur_ws # core.cur_ws =>
       \E dt \in FrameTimes :
         LET t == tick_anims(World(advance_clock(av, dt), core)).av
         IN  /\ ov.hooks_active /\ av.is_active /\ ~av'.is_active
             /\ t.is_animating /\ t.switching_ws
             /\ geo_goal(t.desktop_anim) = Fullscreen
             /\ AllFinished(t)
             /\ core'.cur_ws = ws_index_to_point(t, t.pending_ws)]_vars

\* a pending switch has been committed
C4_Witness == ~av.is_active /\ core.cur_ws = Point(1, 0)

slot_layout(a) ==
  [i \in 1..Len(a.ws_windows) |->
    [k \in 1..Len(a.ws_windows[i].slots) |->
      [view |-> a.ws_windows[i].slots[k].view,
       orig_geo |-> a.ws_windows[i].slots[k].orig_geo,
       target_geo |-> a.ws_windows[i].slots[k].target_geo]]]

\* what C7 asks of the object b reached from the object a by a start_drag
\* of slot k (0-based) and a cancel_drag
cancelled(a, b, k) ==
  /\ slot_layout(b) = slot_layout(a)
  /\ geo_goal(slots_of(b, a.focused_ws)[k + 1].anim) = slots_of(a, a.focused_ws)[k + 1].target_geo
  /\ ~b.drag.active /\ b.drag.view = NoView /\ b.drag.slot_index = -1
  /\ ~b.drag.needs_capture /\ ~b.drag.has_snapshot

\* C7: start_drag at a point inside a slot followed at once by
\* cancel_drag leaves every slot list and target geometry as before, the
\* slot's animation goal at its target geometry and no drag session
\* state (not active, no dragged window, nothing to capture, no snapshot).
C7_DragRoundTrip ==
  [][(probe.op = "none" /\ probe'.op = "round_trip") => cancelled(av, av', probe'.slot)]_vars

\* a round trip has just run on an idle overview: the slot animates again,
\* from its target to its target, and no drag is left
C7_Witness ==
  /\ ~input_open /\ av.is_active /\ av.is_animating /\ ~av.drag.active
  /\ ~anim_is_animating(av.carousel_scroll) /\ ~geo_is_animating(av.desktop_anim)
  /\ \E k \in 1..Len(slots_of(av, av.focused_ws)) :
       LET s == slots_of(av, av.focused_ws)[k]
       IN  geo_is_animating(s.anim) /\ geo_current(s.anim) = s.target_geo

\* C1: after the last deactivate(), with frames that keep coming, the
\* overview becomes inactive.
C1_DeactivateReachesInactive == (probe.op = "deactivate") ~> ~av.is_active

\* the overview became inactive after a last deactivate() with a window
\* unmapped
C1_Witness ==
  probe.op = "deactivate" /\ ~av.is_active /\ used.unmaps = 1

\* C2: after a deactivate() during the entry animation the overview
\* becomes inactive; once no animation runs it is inactive and the
\* compositor's current workspace is the one it was at the call.
C2_MidEntryDeactivate ==
  /\ []((probe.op = "deactivate" /\ probe.mid_entry /\ AllFinished(av)) =>
          (~av.is_active /\ core.cur_ws = probe.cur_ws))
  /\ ((probe.op = "deactivate" /\ probe.mid_entry) ~> ~av.is_active)

\* the overview became inactive after a deactivate() during entry
C2_Witness == probe.op = "deactivate" /\ probe.mid_entry /\ ~av.is_active

\* C25 as stated: deactivate() on an active overview leaves a pending
\* workspace switch if and only if the focused workspace differs from
\* the workspace that was current at activate(), and when the closing
\* has completed the compositor's current workspace is the workspace
\* that was focused at the call.
C25_DeactivateEndsOnFocused ==
  probe.op = "deactivate" =>
    /\ av.is_active =>
         (av.switching_ws <=> probe.focused_ws # ws_point_to_index(av, av.orig_ws))
    /\ ~av.is_active => core.cur_ws = ws_index_to_point(av, probe.focused_ws)

\* C28 as stated: when a session has been closed and the overview is
\* inactive, no workspace holds a slot, no window carries the overview's
\* transformer, a window unmapped during the session included, and no
\* workspace switch is pending.
C28_NothingLeftAfterClose ==
  (~av.is_active /\ used.opens > 0) =>
    /\ \A i \in 1..Len(av.ws_windows) : av.ws_windows[i].slots = << >>
    /\ \A v \in Views : core.node_transformers[v] = 0
    /\ ~av.switching_ws /\ av.pending_ws = -1

\* a closing has been requested and the session is not yet inactive: the
\* main preview is on its way back to the full output
Closing(a) == a.is_active /\ geo_goal(a.desktop_anim) = Fullscreen

\* the entry animation of the main preview is running
Activating(a) ==
  a.is_active /\ geo_is_animating(a.desktop_anim) /\ geo_goal(a.desktop_anim) = a.preview_geo

\* a step in which the toggle closes an active overview
ToggleCloses == used'.closes = used.closes + 1

\* a step in which a click on an idle overview calls deactivate() or
\* deactivate_to_ws(): a release that ends no drag and does not navigate
ClickCloses ==
  /\ ov.button_held /\ ~ov'.button_held
  /\ ~(ov.drag_started /\ av.drag.active)
  /\ av.is_active /\ ~av.is_animating
  /\ av'.focused_ws = av.focused_ws

\* C23: a toggle or a click that requests the closing leaves the session
\* closing and animating; a closing session stays closing and animating
\* until it is inactive; the session becomes inactive only in a step that
\* ends the animations of a closing session with the main preview on the
\* full output; and the entry animation starts only from an inactive
\* session.
C23_ClosingIsOneWay ==
  [][/\ (ToggleCloses \/ ClickCloses) => (Closing(av') /\ av'.is_animating)
     /\ Closing(av) => (~av'.is_active \/ (Closing(av') /\ av'.is_animating))
     /\ (av.is_active /\ ~av'.is_active) =>
          /\ Closing(av) /\ av.is_animating /\ ~av'.is_animating
          /\ ~geo_is_animating(av'.desktop_anim)
          /\ geo_current(av'.desktop_anim) = Fullscreen
     /\ (Activating(av') /\ ~Activating(av)) => ~av.is_active]_vars

\* a session closed by a click has reached the inactive state
C23_Witness == ~av.is_active /\ used.opens = 1 /\ used.closes = 0 /\ used.presses > 0

\* the object after the pre-render hook and the render pass of a frame
\* that comes dt milliseconds after the last
rendered_av(dt) ==
  LET pass(st) == schedule_instructions(World(st.av, st.core)).av
  IN  pass(pre_hook(Sys(advance_clock(av, dt), core, ov)))

\* C29: a drag session starts with needs_capture set and no snapshot;
\* has_snapshot becomes true only in the render pass of a frame, for a
\* mapped dragged window of a session that still needed its capture,
\* the captured slot being the slot of the dragged window, and that
\* pass clears needs_capture; once needs_capture is clear it
\* stays clear and has_snapshot keeps its value for the rest of the
\* session; a capture that finds the window unmapped, or the recorded
\* window size not positive, leaves has_snapshot false.
C29_SnapshotOnlyByCapture ==
  [][/\ (~av.drag.active /\ av'.drag.active) =>
          (av'.drag.needs_capture /\ ~av'.drag.has_snapshot)
     /\ (~av.drag.has_snapshot /\ av'.drag.has_snapshot) =>
          /\ av.drag.active /\ av.drag.needs_capture /\ ~av'.drag.needs_capture
          /\ is_mapped(core, av.drag.view)
          /\ slots_of(av', av'.focused_ws)[av'.drag.slot_index + 1].view = av.drag.view
          /\ ov.hooks_active /\ \E dt \in FrameTimes : av' = rendered_av(dt)
     /\ (av.drag.active /\ av'.drag.active /\ ~av.drag.needs_capture) =>
          (~av'.drag.needs_capture /\ av'.drag.has_snapshot = av.drag.has_snapshot)
     /\ (av.drag.needs_capture /\ ~av'.drag.needs_capture /\ ~is_mapped(core, av.drag.view)) =>
          ~av'.drag.has_snapshot
     /\ av.drag.needs_capture =>
          LET flat == capture_drag_snapshot(
                        World([av EXCEPT !.drag.view_geo.width = 0], core)).drag
          IN  ~flat.has_snapshot
     /\ av'.drag.has_snapshot => (av'.drag.active /\ ~av'.drag.needs_capture)]_vars


\* ------------------------------------------------------------------------
\* A last click on a thumbnail, or a last deactivate_to_ws(idx), after which
\* no input arrives
\* ------------------------------------------------------------------------

\* whether a click at gp is taken by handle_click as a click on a small
\* thumbnail: no window and no other large preview is under it
on_thumbnail(a, gp) ==
  /\ find_view_at(a, to_local(gp)) = NoView
  /\ find_large_ws_at(a, to_local(gp)) \in {-1, a.focused_ws}
  /\ find_thumb_ws_at(a, gp) >= 0

\* a press and a release on the small thumbnail of workspace t while the
\* overview is active and idle
ClickThumbnail(t) ==
  /\ input_open
  /\ av.is_active /\ ~av.is_animating /\ ~ov.button_held
  /\ t < av.total_ws
  /\ on_thumbnail(av, ThumbPoint(av, t))
  /\ find_thumb_ws_at(av, ThumbPoint(av, t)) = t
  /\ Becomes(handle_release(handle_press(Here, ThumbPoint(av, t)), ThumbPoint(av, t)))
  /\ input_open' = FALSE
  /\ probe' = [op |-> "click_thumb", idx |-> t, focused_ws |-> av.focused_ws,
               cur_ws |-> core.cur_ws]
  /\ UNCHANGED <<fb, used>>

\* deactivate_to_ws(idx) on an active overview, the last call made on it
ApiDeactivateToWs(idx) ==
  /\ input_open
  /\ av.is_active
  /\ Becomes(World_Sys(deactivate_to_ws(World(av, core), idx), ov))
  /\ input_open' = FALSE
  /\ probe' = [op |-> "deactivate_to_ws", idx |-> idx, focused_ws |-> av.focused_ws,
               cur_ws |-> core.cur_ws]
  /\ UNCHANGED <<fb, used>>

NextExit ==
  \/ Next
  \/ \E t \in 0..1 : ClickThumbnail(t)
  \/ \E idx \in 0..1 : ApiDeactivateToWs(idx)

SpecExit == Init /\ [][NextExit]_vars

\* C21 as stated: once the closing started by a click on the small
\* thumbnail of workspace T has completed, the compositor's current
\* workspace is T.
C21_ThumbnailClickEndsOnT ==
  (probe.op = "click_thumb" /\ ~av.is_active) =>
    core.cur_ws = ws_index_to_point(av, probe.idx)

\* C26: deactivate_to_ws(idx) for a valid idx on an active overview puts
\* the main preview on the thumbnail rectangle of workspace idx with
\* the full output as its goal, gives every slot its original geometry
\* as goal without moving it, and marks idx as the pending workspace
\* without switching yet; the compositor keeps its workspace while the
\* closing runs, and once the session is inactive its current workspace
\* is idx.
C26_DeactivateToWsEndsOnIdx ==
  [][/\ (probe.op = "none" /\ probe'.op = "deactivate_to_ws") =>
          /\ geo_current(av'.desktop_anim) = av.ws_geos[probe'.idx + 1]
          /\ geo_goal(av'.desktop_anim) = Fullscreen
          /\ \A i \in 1..Len(av.ws_windows) :
               /\ Len(av'.ws_windows[i].slots) = Len(av.ws_windows[i].slots)
               /\ \A k \in 1..Len(av.ws_windows[i].slots) :
                    LET s0 == av.ws_windows[i].slots[k]
                        s1 == av'.ws_windows[i].slots[k]
                    IN  /\ s1.view = s0.view
                        /\ geo_goal(s1.anim) = s0.orig_geo
                        /\ geo_current(s1.anim) = geo_current(s0.anim)
          /\ av'.pending_ws = probe'.idx /\ av'.switching_ws
          /\ av'.is_active /\ av'.is_animating /\ ~av'.drag.active
          /\ core' = core
     /\ (probe'.op = "deactivate_to_ws" /\ av'.is_active) =>
          /\ core'.cur_ws = probe'.cur_ws
          /\ av'.pending_ws = probe'.idx /\ av'.switching_ws
     /\ (probe'.op = "deactivate_to_ws" /\ ~av'.is_active) =>
          core'.cur_ws = ws_index_to_point(av', probe'.idx)]_vars

\* a session closed by deactivate_to_ws(idx) has ended on workspace idx,
\* which was neither the current nor the focused workspace at the call
C26_Witness ==
  /\ probe.op = "deactivate_to_ws" /\ ~av.is_active
  /\ core.cur_ws = ws_index_to_point(av, probe.idx)
  /\ core.cur_ws # probe.cur_ws
  /\ probe.idx # probe.focused_ws

\* ------------------------------------------------------------------------
\* A last navigate_to(idx), and pointer input that arrives while an
\* animation runs
\* ------------------------------------------------------------------------

\* the indices navigate_to is called with: the workspaces, one below and
\* one above
NavIndices == -1..2

\* navigate_to(ws_idx) on an overview that is active and not closing, the
\* last call made on it
ApiNavigateTo(ws_idx) ==
  /\ input_open
  /\ av.is_active /\ ~Closing(av)
  /\ Becomes(World_Sys(navigate_to(World(av, core), ws_idx), ov))
  /\ input_open' = FALSE
  /\ probe' = [op |-> "navigate_to", idx |-> ws_idx, cur_ws |-> core.cur_ws,
               valid |-> (ws_idx >= 0 /\ ws_idx < av.total_ws /\ ws_idx # av.focused_ws)]
  /\ UNCHANGED <<fb, used>>

\* a left button press at p, a motion to q and the release at q, all
\* delivered while an animation of the active overview runs; acted tells
\* whether the three handlers changed anything of the overview
PointerWhileAnimating(p, q) ==
  /\ input_open
  /\ av.is_active /\ av.is_animating
  /\ LET done(st) == Becomes(st) /\ probe' = [op |-> "pointer_animating", acted |-> st.av # av]
     IN  done(handle_release(handle_motion(handle_press(Here, p), q), q))
  /\ input_open' = FALSE
  /\ UNCHANGED <<fb, used>>

NextNav ==
  \/ Next
  \/ \E ws_idx \in NavIndices : ApiNavigateTo(ws_idx)
  \/ \E p, q \in PointerPoints(av) : PointerWhileAnimating(p, q)

SpecNav == Init /\ [][NextNav]_vars

\* C22 as stated: a click or a drag start delivered while an animation is
\* in flight is acted upon.
C22_PointerInterruptsAnimation ==
  probe.op = "pointer_animating" => probe.acted

\* the large preview of workspace ws_idx is horizontally centred on the
\* output, to the pixel, when the carousel is scrolled to sc half pixels
centred_at(a, ws_idx, sc) ==
  LET g == get_large_ws_render_geo([a EXCEPT !.carousel_scroll.val = sc], ws_idx)
  IN  Abs(2 * g.x + g.width - og.width) <= 1

\* C27: navigate_to(idx) with a valid idx other than the focused
\* workspace changes only focused_ws, the carousel scroll and
\* is_animating: focused_ws becomes idx and the scroll's goal is the
\* offset at which the large preview of idx is centred on the output; the
\* overview stays active, the slot lists with their targets and the
\* compositor's workspace stay as they were, also in the frames that
\* follow, and the finished scroll has the preview centred.  With any
\* other idx the call changes nothing.
C27_NavigateStaysInOverview ==
  [][/\ (probe.op = "none" /\ probe'.op = "navigate_to" /\ probe'.valid) =>
          /\ av' = [av EXCEPT !.focused_ws = probe'.idx,
                              !.carousel_scroll = av'.carousel_scroll,
                              !.is_animating = TRUE]
          /\ av'.carousel_scroll.val = av.carousel_scroll.val
          /\ centred_at(av', probe'.idx, av'.carousel_scroll.goal)
          /\ core' = core /\ ov' = ov
     /\ (probe.op = "none" /\ probe'.op = "navigate_to" /\ ~probe'.valid) =>
          av' = av /\ core' = core /\ ov' = ov
     /\ (probe.op = "navigate_to" /\ probe.valid) =>
          /\ av'.is_active /\ av'.focused_ws = probe.idx
          /\ slot_layout(av') = slot_layout(av)
          /\ core'.cur_ws = probe.cur_ws
          /\ ~anim_is_animating(av'.carousel_scroll) =>
               centred_at(av', probe.idx, av'.carousel_scroll.val)]_vars

\* the scroll started by a navigate_to(idx) has finished and the overview
\* is idle on workspace idx, which is not the compositor's workspace
C27_Witness ==
  /\ probe.op = "navigate_to" /\ probe.valid
  /\ av.is_active /\ ~av.is_animating
  /\ av.focused_ws = probe.idx
  /\ core.cur_ws # ws_index_to_point(av, probe.idx)

\* ------------------------------------------------------------------------
\* The overview opened again after a session has ended
\* ------------------------------------------------------------------------

\* the toggle on an overview that has been open before and is inactive
Reopen ==
  /\ input_open
  /\ ~av.is_active
  /\ used.opens >= MaxSessions /\ used.opens < MaxSessions + MaxReopens
  /\ Becomes(toggle(Here))
  /\ used' = [used EXCEPT !.opens = @ + 1]
  /\ UNCHANGED <<fb, input_open, probe>>

NextReopen == Next \/ Reopen

SpecReopen == Init /\ [][NextReopen]_vars

\* C24: in the state that activate() leaves when it is called on an
\* inactive overview, first session or not, every slot's rectangle is at
\* the slot's original geometry and has its target geometry as goal, and
\* the main preview is at the full output rectangle and has the preview
\* rectangle computed by arrange() as goal.
C24_EntryStartsFromOriginal ==
  [][(~av.is_active /\ av'.is_active) =>
       /\ \A i \in 1..Len(av'.ws_windows) : \A k \in 1..Len(av'.ws_windows[i].slots) :
            LET s == av'.ws_windows[i].slots[k]
            IN  /\ geo_current(s.anim) = s.orig_geo
                /\ geo_goal(s.anim) = s.target_geo
       /\ geo_current(av'.desktop_anim) = Fullscreen
       /\ geo_goal(av'.desktop_anim) = av'.preview_geo
       /\ av'.preview_geo = main_preview_geo(og, spacing, panel_height)]_vars

\* the second session has just been entered after a first one in which a
\* window was dropped on another workspace: both windows are in slots and
\* the main preview is at the full output rectangle
C24_Witness ==
  /\ used.opens = MaxSessions + 1 /\ used.drops > 0
  /\ av.is_active /\ av.is_animating
  /\ geo_current(av.desktop_anim) = Fullscreen
  /\ \E i \in 1..Len(av.ws_windows) : Len(av.ws_windows[i].slots) = 2

\* C30: while a drag session lasts, and in the step that starts it, the
\* slot lists keep their windows in their order and every slot keeps
\* its original and its target geometry, whatever the step is (start_drag,
\* update_drag, a frame's tick and capture, a window unmapping); the slot
\* lists and targets change only when the overview is entered, when a drop
\* moves the dragged window to another workspace, and when the finished
\* close clears them.
C30_NoRelayoutMidDrag ==
  [][/\ av'.drag.active => slot_layout(av') = slot_layout(av)
     /\ slot_layout(av') # slot_layout(av) =>
          \/ ~av.is_active /\ av'.is_active
          \/ DropStep /\ av.drag.active /\ ~av'.drag.active
          \/ av.is_active /\ ~av'.is_active /\ av'.ws_windows = << >>]_vars

\* a drag session that has seen a pointer motion over a thumbnail and the
\* capture of its snapshot, with the dragged slot still on its target
C30_Witness ==
  /\ av.drag.active /\ av.drag.has_snapshot /\ av.drag.hover_ws >= 0
  /\ av.drag.slot_index < Len(slots_of(av, av.focused_ws))
  /\ slots_of(av, av.focused_ws)[av.drag.slot_index + 1].view = av.drag.view
  /\ slots_of(av, av.focused_ws)[av.drag.slot_index + 1].target_geo.width > 0

\* a step that ends a drag session without a drop and without closing the
\* overview: end_drag with no target, or cancel_drag
SnapBackStep ==
  /\ av.drag.active /\ ~av'.drag.active
  /\ ~DropStep
  /\ av'.is_active /\ ~Closing(av')

\* the slot a drag session recorded (index drag.slot_index of the focused
\* workspace) is, after the step, animating toward the target geometry it
\* had before the step, with a transformer of opacity alpha if it has one
snapped_back(alpha) ==
  LET f == av.focused_ws
      k == av.drag.slot_index
  IN  (k >= 0 /\ k < Len(slots_of(av, f))) =>
        LET s0 == slots_of(av, f)[k + 1]
            s1 == slots_of(av', f)[k + 1]
        IN  /\ s1.view = s0.view /\ s1.target_geo = s0.target_geo
            /\ geo_goal(s1.anim) = s0.target_geo
            /\ geo_current(s1.anim) = geo_current(s0.anim)
            /\ ~s1.transformer.null => s1.transformer.alpha = alpha
            /\ av'.is_animating

\* C31 as stated: a drag that ends without a valid target leaves the
\* dragged slot animating back to its pre-drag target geometry with its
\* transform at full opacity.
C31_SnapBackFullOpacity ==
  [][SnapBackStep => snapped_back(AlphaFull)]_vars

\* C31 as amended: a drag that ends without a valid target (end_drag over
\* no workspace or over the focused one, or cancel_drag) leaves the slot
\* the session recorded animating back to its pre-drag target geometry
\* from where it is, with its transform at the idle opacity of an
\* overview slot.
C31_SnapBackIdleOpacity ==
  [][SnapBackStep => snapped_back(AlphaIdle)]_vars

\* a drag whose snapshot had been captured, hiding the slot, has snapped
\* back: the slot of the dragged window animates to its target at the
\* idle opacity and nothing was dropped
C31_Witness ==
  /\ av.is_active /\ av.is_animating /\ ~av.drag.active /\ used.drops = 0
  /\ ~geo_is_animating(av.desktop_anim) /\ ~anim_is_animating(av.carousel_scroll)
  /\ \E v \in Views : fb[v] > 0
  /\ \E k \in 1..Len(slots_of(av, av.focused_ws)) :
       LET s == slots_of(av, av.focused_ws)[k]
       IN  /\ geo_is_animating(s.anim) /\ geo_goal(s.anim) = s.target_geo
           /\ ~s.transformer.null /\ s.transformer.alpha = AlphaIdle

\* ------------------------------------------------------------------------
\* Pointer motions of a few pixels around the press position
\* ------------------------------------------------------------------------

\* the travels, in pixels, of the short motions: at the threshold, one
\* pixel beyond it, and diagonals on either side of it
Nudges == {<<8, 0>>, <<9, 0>>, <<0, -8>>, <<-9, 0>>, <<5, 6>>, <<6, 6>>}

\* the position d pixels away from the position p
nudged(p, d) == Point(p.x + d[1] * og.width, p.y + d[2] * og.height)

\* a pointer motion to d pixels from the press position while the button
\* is held, the last input delivered
Nudge(d) ==
  /\ input_open
  /\ av.is_active /\ ~av.is_animating
  /\ ov.button_held
  /\ Becomes(handle_motion(Here, nudged(ov.press_pos, d)))
  /\ input_open' = FALSE
  /\ probe' = [op |-> "nudge", d |-> d]
  /\ UNCHANGED <<fb, used>>

NextNudge ==
  \/ Next
  \/ \E d \in Nudges : Nudge(d)

SpecNudge == Init /\ [][NextNudge]_vars

\* the square of the distance, in pixels, between the positions p and q
travel2(p, q) ==
  ((q.x - p.x) \div og.width) * ((q.x - p.x) \div og.width)
    + ((q.y - p.y) \div og.height) * ((q.y - p.y) \div og.height)

\* C32: button_held is set only by a press on an active, idle overview;
\* a drag session starts only in a step of an active, idle overview with
\* the button held and no drag started since the press, by a motion to a
\* position more than 8 pixels from the press position, and it grabs the
\* slot under the press position with its window; a short motion from
\* the press position starts one exactly when it travels more than 8
\* pixels, no drag is under way and a slot is under the press position; a release of a held
\* button with no drag started, on an active, idle overview, starts no
\* drag and does what a click does: it closes the overview or moves the
\* carousel to another workspace.
C32_DragStartsBeyondThreshold ==
  [][/\ (~ov.button_held /\ ov'.button_held) => (av.is_active /\ ~av.is_animating)
     /\ (~av.drag.active /\ av'.drag.active) =>
          /\ av.is_active /\ ~av.is_animating
          /\ ov.button_held /\ ov'.button_held /\ ~ov.drag_started /\ ov'.drag_started
          /\ ov'.press_pos = ov.press_pos
          /\ IF probe'.op = "nudge"
             THEN probe'.d[1] * probe'.d[1] + probe'.d[2] * probe'.d[2] > 8 * 8
             ELSE \E q \in PointerPoints(av) :
                    /\ travel2(ov.press_pos, q) > 8 * 8
                    /\ av' = handle_motion(Here, q).av
          /\ av'.drag.slot_index = find_slot_at(av, to_local(ov.press_pos))
          /\ av'.drag.slot_index >= 0
          /\ av'.drag.view = find_view_at(av, to_local(ov.press_pos))
     /\ (probe.op = "none" /\ probe'.op = "nudge") =>
          (av'.drag.active /\ ~av.drag.active) <=>
            /\ probe'.d[1] * probe'.d[1] + probe'.d[2] * probe'.d[2] > 8 * 8
            /\ ~ov.drag_started /\ ~av.drag.active
            /\ find_slot_at(av, to_local(ov.press_pos)) >= 0
     /\ (ov.button_held /\ ~ov'.button_held /\ ~ov.drag_started
           /\ av.is_active /\ ~av.is_animating) =>
          /\ av'.drag.active => av.drag.active
          /\ av'.is_animating
          /\ Closing(av') \/ av'.focused_ws # av.focused_ws]_vars

\* a drag session started by a motion of nine pixels: the pointer is
\* still over the slot it grabbed
C32_Witness ==
  /\ probe.op = "nudge" /\ probe.d = <<9, 0>>
  /\ av.drag.active /\ ov.drag_started /\ ov.button_held
  /\ find_slot_at(av, to_local(ov.press_pos)) = av.drag.slot_index
  /\ av.drag.hover_ws = -1 /\ av.drag.hover_large_ws = -1
  /\ av.hovered_view = av.drag.view

\* ------------------------------------------------------------------------
\* animate_to on a scalar animation whose duration may be zero or negative
\* ------------------------------------------------------------------------

\* the durations set_duration is given: the option animation_duration is
\* an integer of any sign
JumpDurations == {-300, -1, 0, 300}

\* an anim_t constructed at value v and given the duration d
JumpInit ==
  /\ core = core_new(InitViews(0), wsize)
  /\ av = av_new
  /\ ov = ov_new
  /\ fb = [v \in Views |-> 0]
  /\ used = [drops |-> 0, opens |-> 0, closes |-> 0, presses |-> 0, unmaps |-> 0]
  /\ input_open = FALSE
  /\ \E v \in AnimValues, g \in AnimGoals, d \in JumpDurations :
       probe = [op |-> "anim", a |-> anim_set_duration(anim_new(v), d), g |-> g,
                started |-> FALSE, since |-> 0, ticks |-> 0, ret |-> FALSE]

NextJump ==
  \/ AnimStart
  \/ \E v \in AnimValues : AnimWarp(v)

SpecJump == JumpInit /\ [][NextJump]_vars

\* C33 as stated: directly after animate_to(goal) on an animation whose
\* duration is zero or negative, before any tick, the value equals the
\* goal and the animation is not animating.
C33_NoDurationJumps ==
  (probe.op = "anim" /\ probe.started /\ probe.a.duration_ms <= 0) =>
    (anim_value(probe.a) = probe.a.goal /\ ~anim_is_animating(probe.a))

\* the reference score of c columns for n windows in an area of aspect
\* an/ad, |c/r - an/ad| / (an/ad) + 0.5 * (c*r - n) / n with r = ceil(n/c),
\* as a fraction of which the factor 2 * n * an, common to the denominators
\* of all column counts, is left out
ref_score(n, an, ad, c) ==
  LET r == IF n % c = 0 THEN n \div c ELSE n \div c + 1
  IN  [num |-> 2 * n * Abs(c * ad - r * an) + (c * r - n) * r * an, den |-> r]

slots_holding(a, v) ==
  {p \in (1..Len(a.ws_windows)) \X (1..2 * Cardinality(Views)) :
     p[2] <= Len(a.ws_windows[p[1]].slots) /\ a.ws_windows[p[1]].slots[p[2]].view = v}

\* C35: in every state between events a window is referenced by at most
\* one slot over all workspaces and its node carries at most one
\* transformer of the overview, and every slot list is short enough to
\* be counted; in a drop, once the dragged window's slot is taken out of
\* the source workspace no slot references the window and, if it is
\* mapped, its node carries no transformer, and after the drop its one
\* slot is in another workspace than the source.
C35_OneSlotOneTransform ==
  [][/\ \A v \in Views :
          /\ Cardinality(slots_holding(av', v)) <= 1
          /\ core'.node_transformers[v] <= 1
     /\ \A i \in 1..Len(av'.ws_windows) : Len(av'.ws_windows[i].slots) <= Cardinality(Views)
     /\ DropStep =>
          LET v == av.drag.view
              gone(w1) == /\ slots_holding(w1.av, v) = {}
                          /\ is_mapped(core, v) => w1.core.node_transformers[v] = 0
          IN  /\ gone(remove_dragged_slot(World(av, core)))
              /\ is_mapped(core, v) =>
                   /\ Cardinality(slots_holding(av', v)) = 1
                   /\ \A p \in slots_holding(av', v) : p[1] # av.focused_ws + 1
                   /\ core'.node_transformers[v] = 1]_vars

\* a mapped window has been dropped on another workspace in the first
\* session and the overview has been opened again: the window has one
\* slot and one transformer
C35_Witness ==
  /\ used.drops = 1 /\ used.opens = MaxSessions + 1 /\ av.is_active
  /\ \A v \in Views : is_mapped(core, v) =>
       (Cardinality(slots_holding(av, v)) = 1 /\ core.node_transformers[v] = 1)
  /\ \E i \in 1..Len(av.ws_windows) : Len(av.ws_windows[i].slots) = 2

\* C36 as stated: in every state between events a drag session is active
\* only on an active overview that is not animating, a pending capture or
\* a snapshot exists only in a drag session, and never both.
C36_DragOnlyWhileIdle ==
  /\ av.drag.active => (av.is_active /\ ~av.is_animating)
  /\ (av.drag.needs_capture \/ av.drag.has_snapshot) => av.drag.active
  /\ ~(av.drag.needs_capture /\ av.drag.has_snapshot)

\* C37 as stated: while a drag session is active drag.slot_index is an
\* index into the slot list of the focused workspace and the slot there
\* references the dragged window, and no step within the session changes
\* focused_ws or the slot list of the focused workspace.
C37_DragSlotStaysValid ==
  [][/\ av'.drag.active =>
          /\ av'.drag.slot_index >= 0
          /\ av'.drag.slot_index < Len(slots_of(av', av'.focused_ws))
          /\ slots_of(av', av'.focused_ws)[av'.drag.slot_index + 1].view = av'.drag.view
     /\ (av.drag.active /\ av'.drag.active) =>
          /\ av'.focused_ws = av.focused_ws
          /\ Len(slots_of(av', av.focused_ws)) = Len(slots_of(av, av.focused_ws))
          /\ \A k \in 1..Len(slots_of(av, av.focused_ws)) :
               slots_of(av', av.focused_ws)[k].view = slots_of(av, av.focused_ws)[k].view]_vars

\* C38: in every state between events, if the main-preview rectangle,
\* the carousel scroll or the rectangle of any slot is animating then
\* is_animating is true.
C38_FlagCoversAnimations ==
  ~AllFinished(av) => av.is_animating

\* after a drop the slots of the two workspaces are animating to their
\* new targets while the main preview and the carousel are at rest, and
\* is_animating is set
C38_Witness ==
  /\ used.drops = 1 /\ av.is_active /\ av.is_animating
  /\ ~geo_is_animating(av.desktop_anim) /\ ~anim_is_animating(av.carousel_scroll)
  /\ any_slot_animating(av)

\* the hovered flag is true for exactly the slot of the focused workspace
\* under the pointer at cursor, and false for every other slot of every
\* workspace
hover_exact(a, cursor) ==
  \A wi \in 0..(ws_count(a) - 1) :
    \A k \in 1..Len(slots_of(a, wi)) :
      slots_of(a, wi)[k].hovered
        <=> (wi = a.focused_ws /\ k - 1 = find_slot_at(a, to_local(cursor)))

\* C39: a pointer motion that is processed while the overview is active,
\* idle and not dragging leaves the hovered flag true for exactly the
\* focused-workspace slot under the pointer and false for every other
\* slot of every workspace, in every session and after every navigation.
C39_HoverFollowsPointer ==
  \A p \in PointerPoints(av) :
    (input_open /\ av.is_active /\ ~av.is_animating /\ ~av.drag.active)
      => LET st == handle_motion(Here, p)
         IN  ~st.av.drag.active => hover_exact(st.av, p)

\* C40: in every state between events the frame hooks are installed
\* exactly when the overview is active: hooks_active = is_active.
C40_HooksFollowActive ==
  ov.hooks_active <=> av.is_active

\* a session has been opened and has ended: the overview is inactive
\* again and the frame hooks are removed
C40_Witness ==
  used.opens >= 1 /\ ~av.is_active /\ ~ov.hooks_active

====
